---- MODULE Spec2Model ----
(***************************************************************************)
(* Transport-order document assembly (generators) and validation          *)
(* (structural and business validators).                                   *)
(*                                                                         *)
(* Text is modelled as a sequence of atoms.  An atom is either one of the  *)
(* markup characters below or a word (a tag name, a placeholder name, a    *)
(* value).  Templates, generated documents and submitted documents are     *)
(* all such sequences, so that literal substitution, placeholder cleanup   *)
(* and parsing are computed on the text as the code computes them.         *)
(***************************************************************************)
EXTENDS Integers, Sequences, FiniteSets, TLC

NAMESPACE == "http://xch.transporeon.com/soap/"

IsWs(a) == a \in {"\n", " "}

\* a word, as opposed to a markup character
IsName(a) == a \notin {"<", ">", "/", "{", "}", "\n", " ", "=", "\"", "&", "soap:"}

(***************************************************************************)
(* Helpers on text.                                                        *)
(***************************************************************************)
MinOf(S) == CHOOSE x \in S : \A y \in S : x <= y

MaxOf(S) == CHOOSE x \in S : \A y \in S : y <= x

\* the first position of ch in s from frm on, 0 when there is none
First(s, ch, frm) ==
    IF \E i \in frm..Len(s) : s[i] = ch
    THEN CHOOSE i \in frm..Len(s) : s[i] = ch /\ \A j \in frm..(i - 1) : s[j] # ch
    ELSE 0

StartsAt(s, p, pat) ==
    /\ p + Len(pat) - 1 <= Len(s)
    /\ SubSeq(s, p, p + Len(pat) - 1) = pat

RECURSIVE Concat(_)
Concat(ss) ==
    IF ss = <<>> THEN <<>>
    ELSE IF Len(ss) = 1 THEN ss[1]
    ELSE LET h == Len(ss) \div 2 IN
         Concat(SubSeq(ss, 1, h)) \o Concat(SubSeq(ss, h + 1, Len(ss)))

(***************************************************************************)
(* str.replace: leftmost non-overlapping occurrences, the inserted text    *)
(* is not rescanned.                                                       *)
(***************************************************************************)
StrReplace(s, pat, val) ==
    LET RECURSIVE ReplaceFrom(_, _)
        Found(p, out, at) ==
            IF at = {} THEN out \o SubSeq(s, p, Len(s))
            ELSE ReplaceFrom(MinOf(at) + Len(pat),
                             out \o SubSeq(s, p, MinOf(at) - 1) \o val)
        ReplaceFrom(p, out) ==
            Found(p, out, {q \in p..(Len(s) - Len(pat) + 1) :
                              s[q] = pat[1] /\ StartsAt(s, q, pat)}) IN
    IF Len(s) < Len(pat) \/ val = pat THEN s ELSE ReplaceFrom(1, <<>>)

Placeholder(name) == <<"{", name, "}">>

(***************************************************************************)
(* XMLDOMBuilder.replace_placeholders, and the identical loops that end    *)
(* the variant augmentation passes: the replacements are applied one       *)
(* after the other, in insertion order, each on the result of the          *)
(* previous one.  A replacement is a pair <<placeholder name, value>>.     *)
(***************************************************************************)
RECURSIVE replace_placeholders(_, _)
replace_placeholders(template, replacements) ==
    IF replacements = <<>> \/ Len(template) = 0 THEN template
    ELSE IF Len(replacements) = 1
    THEN StrReplace(template, Placeholder(replacements[1][1]), replacements[1][2])
    ELSE LET h == Len(replacements) \div 2 IN
         replace_placeholders(
             replace_placeholders(template, SubSeq(replacements, 1, h)),
             SubSeq(replacements, h + 1, Len(replacements)))

(***************************************************************************)
(* XMLDOMBuilder.remove_empty_placeholders: four re.sub passes.  Match     *)
(* gives, for a match of the pass starting at p, the position following    *)
(* the match, and 0 when the pass does not match at p.                     *)
(***************************************************************************)
Match(pass, s, p) ==
    LET \* the first position from i on that holds no whitespace
        SkipWs(i) ==
            IF i > Len(s) THEN i
            ELSE CHOOSE j \in i..(Len(s) + 1) :
                     /\ j > Len(s) \/ ~IsWs(s[j])
                     /\ \A k \in i..(j - 1) : IsWs(s[k])
        \* the last newline of s[lo..hi], 0 when there is none
        LastNl(lo, hi) ==
            IF \E i \in lo..hi : s[i] = "\n"
            THEN MaxOf({i \in lo..hi : s[i] = "\n"}) ELSE 0
        \* \{[^}]*\} at j: the position after the '}', else 0
        Token(j) ==
            IF j > Len(s) \/ s[j] # "{" \/ First(s, "}", j + 1) = 0 THEN 0
            ELSE First(s, "}", j + 1) + 1
        \* pass 1: ^\s*\{[^}]*\}\s*$   (MULTILINE)
        Eol(t, e) == IF e = Len(s) + 1 THEN e ELSE LastNl(t, e - 1)
        End1(t) == IF t = 0 THEN 0 ELSE Eol(t, SkipWs(t))
        \* pass 2: <([^>]+)>\s*\{[^}]*\}\s*</\1>
        Close2(g, m) ==
            IF StartsAt(s, m, <<"<", "/">> \o SubSeq(s, p + 1, g - 1) \o <<">">>)
            THEN m + (g - p) + 2 ELSE 0
        Body2(g, t) == IF t = 0 THEN 0 ELSE Close2(g, SkipWs(t))
        Open2(g) ==
            IF g = 0 \/ g = p + 1 THEN 0 ELSE Body2(g, Token(SkipWs(g + 1)))
        \* pass 3: <[^>]*\{[^}]*\}[^>]*/>\s*   the '{' is the last one of
        \* the tag that is followed by '}' and then, with no '>' between,
        \* by '/>'
        Slash3(k, q) ==
            IF q = 0 \/ q - 1 <= k \/ s[q - 1] # "/" THEN 0 ELSE SkipWs(q + 1)
        End3(k) == IF k = 0 THEN 0 ELSE Slash3(k, First(s, ">", k + 1))
        Last3(at) == IF at = {} THEN 0 ELSE End3(First(s, "}", MaxOf(at) + 1))
        In3(r) ==
            Last3({j \in (p + 1)..(IF r = 0 THEN Len(s) ELSE r - 1) :
                      s[j] = "{" /\ End3(First(s, "}", j + 1)) # 0})
    IN
    CASE pass = 1 ->
           IF p = 1 \/ s[p - 1] = "\n" THEN End1(Token(SkipWs(p))) ELSE 0
      [] pass = 2 -> IF s[p] = "<" THEN Open2(First(s, ">", p + 1)) ELSE 0
      [] pass = 3 -> IF s[p] = "<" THEN In3(First(s, ">", p + 1)) ELSE 0
      [] OTHER    -> Token(p)

\* re.sub(pattern, '', s): the matches are taken from left to right, each
\* search starting where the previous match ended; starts holds the
\* positions where the pattern matches.  SubFrom takes up to k matches
\* from position p on and returns the position reached and the text kept.
ReSub(pass, s) ==
    LET RECURSIVE SubFrom(_, _, _)
        Take(p, q) == [p |-> Match(pass, s, q), out |-> SubSeq(s, p, q - 1)]
        Then(a, b) == [p |-> b.p, out |-> a.out \o b.out]
        Rest(starts, k, a) == Then(a, SubFrom(starts, a.p, k - (k \div 2)))
        SubFrom(starts, p, k) ==
            IF k = 0 \/ \A q \in starts : q < p THEN [p |-> p, out |-> <<>>]
            ELSE IF k = 1 THEN Take(p, MinOf({q \in starts : q >= p}))
            ELSE Rest(starts, k, SubFrom(starts, p, k \div 2))
        Kept(r) == r.out \o SubSeq(s, r.p, Len(s))
        From(starts) == Kept(SubFrom(starts, 1, Cardinality(starts)))
    IN
    IF s = <<>> THEN s ELSE From({q \in 1..Len(s) : Match(pass, s, q) # 0})

\* the first three passes alone
remove_placeholder_lines_and_tags(xml_string) ==
    ReSub(3, ReSub(2, ReSub(1, xml_string)))

remove_empty_placeholders(xml_string) ==
    ReSub(4, ReSub(3, ReSub(2, ReSub(1, xml_string))))

\* some '{' is followed, anywhere later, by a '}'
HasPlaceholder(s) ==
    \E i \in 1..Len(s) : s[i] = "{" /\ First(s, "}", i + 1) # 0

(***************************************************************************)
(* xml.etree.ElementTree.fromstring on the text.  An element is a record   *)
(* [tag, ns, attrs, text, kids]: ns is the namespace of the tag ("" for a  *)
(* bare tag), text the text before the first child (<<>> is None), attrs   *)
(* a sequence of <<name, value>>.  NoElem is None.                         *)
(***************************************************************************)
NoElem == [tag |-> "#none", ns |-> "", attrs |-> <<>>, text |-> <<>>, kids |-> <<>>]

IsNone(e) == e.tag = "#none"

HasAttr(attrs, name) == \E i \in 1..Len(attrs) : attrs[i][1] = name

AttrValue(attrs, name) ==
    attrs[CHOOSE i \in 1..Len(attrs) : attrs[i][1] = name][2]

\* The parser reads the text token by token.  Its state is [i, stack,
\* root, failed]: the position to read from, the open elements, the
\* completed root (NoElem while there is none) and the error flag.
ParseState(i, stack, root) == [i |-> i, stack |-> stack, root |-> root, failed |-> FALSE]

ParseStep(s, st) ==
    LET i == st.i
        stack == st.stack
        ParseFailure == [i |-> 0, stack |-> <<>>, root |-> NoElem, failed |-> TRUE]
        Entities == "amp;" :> "&" @@ "lt;" :> "<" @@ "gt;" :> ">"
        RECURSIVE ParseAttrs(_, _)
        Quoted(j, acc, q) ==
            IF /\ IsName(s[j])
               /\ ~HasAttr(acc, s[j])
               /\ q # 0
               /\ s[j + 1] = "="
               /\ s[j + 2] = "\""
               /\ \A k \in (j + 3)..(q - 1) : s[k] \notin {"<", "&"}
            THEN ParseAttrs(q + 1, Append(acc, <<s[j], SubSeq(s, j + 3, q - 1)>>))
            ELSE [ok |-> FALSE, next |-> 0, attrs |-> acc]
        ParseAttrs(j, acc) ==
            IF j > Len(s) THEN [ok |-> FALSE, next |-> 0, attrs |-> acc]
            ELSE IF IsWs(s[j]) THEN ParseAttrs(j + 1, acc)
            ELSE IF s[j] \in {">", "/"} THEN [ok |-> TRUE, next |-> j, attrs |-> acc]
            ELSE Quoted(j, acc, IF j + 2 <= Len(s) THEN First(s, "\"", j + 3) ELSE 0)
        ElemOf(frame) ==
            [tag |-> frame.tag, ns |-> frame.ns, attrs |-> frame.attrs,
             text |-> frame.text, kids |-> frame.kids]
        \* character data: it is the text of the innermost open element
        \* while that element has no child yet
        AddText(run) ==
            IF stack[Len(stack)].kids = <<>>
            THEN [stack EXCEPT ![Len(stack)].text = @ \o run]
            ELSE stack
        \* the element e is complete: it is the root, or a child of the
        \* innermost element of rest
        Pop(next, e, rest) ==
            IF rest = <<>> THEN ParseState(next, <<>>, e)
            ELSE ParseState(next, [rest EXCEPT ![Len(rest)].kids = Append(@, e)],
                            st.root)
        AttrWord(v) ==
            IF v = <<>> THEN "" ELSE IF Len(v) = 1 THEN v[1] ELSE "#text"
        Closing(hasP, n) ==
            IF /\ n + 1 <= Len(s)
               /\ stack # <<>>
               /\ stack[Len(stack)].raw = <<hasP, s[n]>>
               /\ s[n + 1] = ">"
            THEN Pop(n + 2, ElemOf(stack[Len(stack)]), SubSeq(stack, 1, Len(stack) - 1))
            ELSE ParseFailure
        \* a namespace declared by the tag itself, else the inherited one
        Declared(attrs, name, field) ==
            IF HasAttr(attrs, name) THEN AttrWord(AttrValue(attrs, name))
            ELSE IF stack = <<>> THEN "" ELSE stack[Len(stack)][field]
        Frame(hasP, name, attrs, dflt, pfx) ==
            [raw |-> <<hasP, name>>, tag |-> name,
             ns |-> IF hasP THEN pfx ELSE dflt,
             dflt |-> dflt, pfx |-> pfx,
             attrs |-> SelectSeq(attrs, LAMBDA a : a[1] \notin {"xmlns", "xmlns:soap"}),
             text |-> <<>>, kids |-> <<>>]
        Opened(hasP, at, frame) ==
            IF ~at.ok \/ ~IsNone(st.root) \/ (hasP /\ frame.pfx = "")
            THEN ParseFailure
            ELSE IF s[at.next] = ">"
            THEN ParseState(at.next + 1, Append(stack, frame), st.root)
            ELSE IF at.next < Len(s) /\ s[at.next + 1] = ">"
            THEN Pop(at.next + 2, ElemOf(frame), stack)
            ELSE ParseFailure
        Opening(hasP, n, at) ==
            Opened(hasP, at,
                   Frame(hasP, s[n], at.attrs, Declared(at.attrs, "xmlns", "dflt"),
                         Declared(at.attrs, "xmlns:soap", "pfx")))
        Tag(hasP, n) ==
            Opening(hasP, n,
                    IF n <= Len(s) /\ IsName(s[n])
                    THEN ParseAttrs(n + 1, <<>>)
                    ELSE [ok |-> FALSE, next |-> 0, attrs |-> <<>>])
        CharData(e) ==
            IF stack = <<>>
            THEN IF \A j \in i..(e - 1) : IsWs(s[j])
                 THEN ParseState(e, stack, st.root) ELSE ParseFailure
            ELSE ParseState(e, AddText(SubSeq(s, i, e - 1)), st.root)
    IN
    IF s[i] = "<" /\ i < Len(s) /\ s[i + 1] = "/"
    THEN \* closing tag
         IF i + 2 <= Len(s) /\ s[i + 2] = "soap:"
         THEN Closing(TRUE, i + 3) ELSE Closing(FALSE, i + 2)
    ELSE IF s[i] = "<"
    THEN \* opening or self-closing tag
         IF i + 1 <= Len(s) /\ s[i + 1] = "soap:"
         THEN Tag(TRUE, i + 2) ELSE Tag(FALSE, i + 1)
    ELSE IF s[i] = "&"
    THEN \* an entity reference is character data, a bare '&' is an error
         IF i < Len(s) /\ s[i + 1] \in DOMAIN Entities /\ stack # <<>>
         THEN ParseState(i + 2, AddText(<<Entities[s[i + 1]]>>), st.root)
         ELSE ParseFailure
    ELSE \* character data up to the next '<' or '&'
         CharData(CHOOSE j \in i..(Len(s) + 1) :
                      /\ j > Len(s) \/ s[j] \in {"<", "&"}
                      /\ \A k \in i..(j - 1) : s[k] \notin {"<", "&"})

\* ParseStep repeated until the text is read or an error is found, at most
\* k times
MaxTokens == 1024

fromstring(xml_content) ==
    LET RECURSIVE Parse(_, _)
        Parse(st, k) ==
            IF k = 0 \/ st.failed \/ st.i > Len(xml_content) THEN st
            ELSE IF k = 1 THEN ParseStep(xml_content, st)
            ELSE Parse(Parse(st, k \div 2), k - (k \div 2))
        Result(st) ==
            IF ~st.failed /\ st.i > Len(xml_content) /\ st.stack = <<>> /\ ~IsNone(st.root)
            THEN [ok |-> TRUE, root |-> st.root]
            ELSE [ok |-> FALSE, root |-> NoElem]
    IN Result(Parse(ParseState(1, <<>>, NoElem), MaxTokens))

(***************************************************************************)
(* Element.find / findall / get, the truth value of an Element (an         *)
(* Element with no children is false) and Python's "a or b".               *)
(***************************************************************************)
Find(e, ns, name) ==
    LET First_(idx) == IF idx = {} THEN NoElem ELSE e.kids[MinOf(idx)] IN
    First_({i \in 1..Len(e.kids) : e.kids[i].tag = name /\ e.kids[i].ns = ns})

FindAll(e, ns, name) ==
    SelectSeq(e.kids, LAMBDA k : k.tag = name /\ k.ns = ns)

RECURSIVE Descendants(_)
Descendants(kids) ==
    IF kids = <<>> THEN <<>>
    ELSE <<Head(kids)>> \o Descendants(Head(kids).kids) \o Descendants(Tail(kids))

\* root.find(".//name")
FindDeep(root, ns, name) ==
    LET d == SelectSeq(Descendants(root.kids),
                       LAMBDA k : k.tag = name /\ k.ns = ns) IN
    IF d = <<>> THEN NoElem ELSE Head(d)

Get(e, name) ==
    IF HasAttr(e.attrs, name) THEN AttrValue(e.attrs, name) ELSE <<>>

(***************************************************************************)
(* Values.  A date-time word is described by its wall-clock minute count,  *)
(* the way its zone is written and its UTC offset in minutes; the words    *)
(* of IsoTable are those that match the ISO-8601 pattern of the code.      *)
(***************************************************************************)
IsoTable ==
    "2025-09-25T00:00:00+02:00" :> [local |-> 384480, tz |-> "+", off |-> 120] @@
    "2025-09-25T23:59:00+02:00" :> [local |-> 385919, tz |-> "+", off |-> 120] @@
    "2025-09-29T00:00:00+02:00" :> [local |-> 390240, tz |-> "+", off |-> 120] @@
    "2025-09-25T00:00:00Z" :> [local |-> 384480, tz |-> "Z", off |-> 0] @@
    "2025-09-26T23:59:00Z" :> [local |-> 387359, tz |-> "Z", off |-> 0] @@
    "2025-09-26T09:00:00Z" :> [local |-> 386460, tz |-> "Z", off |-> 0] @@
    "2025-07-13T00:00:00+02:00" :> [local |-> 277920, tz |-> "+", off |-> 120] @@
    "2025-10-11T00:00:00+02:00" :> [local |-> 407520, tz |-> "+", off |-> 120] @@
    "2025-09-25T10:00:00+05:00" :> [local |-> 385080, tz |-> "+", off |-> 300] @@
    "2025-09-25T09:00:00Z" :> [local |-> 385020, tz |-> "Z", off |-> 0] @@
    "2025-09-25T08:00:00-05:00" :> [local |-> 384960, tz |-> "-", off |-> -300] @@
    "2025-09-25T12:00:00-05:00" :> [local |-> 385200, tz |-> "-", off |-> -300]

\* ^\d{4}-\d{2}-\d{2}T\d{2}:\d{2}:\d{2}([+-]\d{2}:\d{2}|Z)$
IsIsoDateTime(text) == Len(text) = 1 /\ text[1] \in DOMAIN IsoTable

\* ^[A-Z]{2}$
IsCountryCode(text) == Len(text) = 1 /\ text[1] \in {"DE", "PL", "US", "VN"}

Digits == <<"0", "1", "2", "3", "4", "5", "6", "7", "8", "9">>

\* str(n) for the small integers of the model
IntText(n) == IF n \in 0..9 THEN <<Digits[n + 1]>> ELSE <<"1", Digits[n - 9]>>

\* int(text): <<TRUE, n>>, or <<FALSE, 0>> for a ValueError
ParseInt(text) ==
    LET IsDigit(a) == \E n \in 0..9 : Digits[n + 1] = a
        RECURSIVE DigitsValue(_)
        DigitsValue(ds) ==
            IF ds = <<>> THEN 0
            ELSE 10 * DigitsValue(SubSeq(ds, 1, Len(ds) - 1))
                 + (CHOOSE n \in 0..9 : Digits[n + 1] = ds[Len(ds)])
        Signed(negative, ds) ==
            IF ds # <<>> /\ \A i \in 1..Len(ds) : IsDigit(ds[i])
            THEN <<TRUE, IF negative THEN -DigitsValue(ds) ELSE DigitsValue(ds)>>
            ELSE <<FALSE, 0>>
        Stripped(stripped) ==
            IF stripped # <<>> /\ stripped[1] = "-" THEN Signed(TRUE, Tail(stripped))
            ELSE Signed(FALSE, stripped) IN
    Stripped(SelectSeq(text, LAMBDA a : ~IsWs(a)))

(***************************************************************************)
(* Validation results.                                                     *)
(***************************************************************************)
NewResult == [is_valid |-> TRUE, errors |-> <<>>, warnings |-> <<>>, raised |-> FALSE]

Message(msg, arg) == [msg |-> msg, arg |-> arg]

\* the append alone, is_valid left as it was
AppendError(result, msg, arg) ==
    [result EXCEPT !.errors = Append(@, Message(msg, arg))]

\* result["errors"].append(...); result["is_valid"] = False
AddError(result, msg, arg) ==
    [result EXCEPT !.errors = Append(@, Message(msg, arg)), !.is_valid = FALSE]

\* result["warnings"].append(...)
AddWarning(result, msg, arg) ==
    [result EXCEPT !.warnings = Append(@, Message(msg, arg))]

\* an exception that no handler of validate_input catches leaves it: the
\* first one raised is the one the caller of validate_input sees
Propagate(result, exception) ==
    IF "raised" \in DOMAIN result THEN result
    ELSE result @@ [raised |-> exception]

Escaped(result) == "raised" \in DOMAIN result

\* an exception leaves the operation: no result is returned
Raised == [is_valid |-> FALSE, errors |-> <<>>, warnings |-> <<>>, raised |-> TRUE]

ParseErrorResult == AddError(NewResult, "XML parsing error", <<>>)

(***************************************************************************)
(* StructuralValidator.                                                    *)
(***************************************************************************)
_validate_namespace(root) ==
    \/ root.ns = NAMESPACE
    \/ (root.ns = "" /\ root.tag = "transport_orders")

\* parent.find(namespace + name) or parent.find(name)
\* (an Element is true when it has children)
FindOr(parent, name) ==
    LET Or(a, b) == IF ~IsNone(a) /\ a.kids # <<>> THEN a ELSE b IN
    Or(Find(parent, NAMESPACE, name), Find(parent, "", name))

\* parent.findall(namespace + name) or parent.findall(name)
FindAllOr(parent, name) ==
    LET Or(a, b) == IF a # <<>> THEN a ELSE b IN
    Or(FindAll(parent, NAMESPACE, name), FindAll(parent, "", name))

RECURSIVE _validate_required_elements(_, _, _)
_validate_required_elements(transport_order, names, result) ==
    LET Checked(element_name, element) ==
            IF IsNone(element)
            THEN AddError(result, "Required element is missing", <<element_name>>)
            ELSE IF /\ element_name \in {"number", "status", "scheduling_unit"}
                    /\ element.text = <<>>
            THEN AddError(result, "Required element is empty", <<element_name>>)
            ELSE result
        \* element = find(namespace + name); if element is None: find(name)
        Element(element_name) ==
            IF IsNone(Find(transport_order, NAMESPACE, element_name))
            THEN Find(transport_order, "", element_name)
            ELSE Find(transport_order, NAMESPACE, element_name)
    IN
    IF names = <<>> THEN result
    ELSE _validate_required_elements(transport_order, Tail(names),
             Checked(Head(names), Element(Head(names))))

_validate_stop_id_structure(order_details, result) ==
    LET Ids(container, name, msg, r) ==
            IF ~IsNone(container) /\ FindAllOr(container, name) = <<>>
            THEN AddError(r, msg, <<>>)
            ELSE r
    IN
    Ids(FindOr(order_details, "unloading_stop_ids"), "unloading_stop_id",
        "unloading_stop_ids must contain at least one unloading_stop_id",
        Ids(FindOr(order_details, "loading_stop_ids"), "loading_stop_id",
            "loading_stop_ids must contain at least one loading_stop_id", result))

_validate_order_details(order_details, result) ==
    LET RECURSIVE Required(_, _)
        Required(names, r) ==
            IF names = <<>> THEN r
            ELSE Required(Tail(names),
                     IF IsNone(FindOr(order_details, Head(names)))
                     THEN AddError(r, "order_details missing required element",
                                   <<Head(names)>>)
                     ELSE r)
    IN
    _validate_stop_id_structure(order_details,
        Required(<<"number", "loading_stop_ids", "unloading_stop_ids">>, result))

_validate_location_structure(location, stop_number, result) ==
    LET Missing(element) == IsNone(element) \/ element.text = <<>>
        RECURSIVE Required(_, _)
        Required(names, r) ==
            IF names = <<>> THEN r
            ELSE Required(Tail(names),
                     IF Missing(FindOr(location, Head(names)))
                     THEN AddError(r, "Stop: location missing required element",
                                   IntText(stop_number) \o <<Head(names)>>)
                     ELSE r)
        Country(country, r) ==
            IF ~IsNone(country) /\ country.text # <<>> /\ ~IsCountryCode(country.text)
            THEN AddError(r, "Stop: country code must be 2 uppercase letters",
                          IntText(stop_number))
            ELSE r
    IN
    Country(FindOr(location, "country"),
            Required(<<"company_name", "city", "country">>, result))

_validate_date_time_period(period, stop_number, result) ==
    LET _validate_datetime_format(datetime_str) == IsIsoDateTime(datetime_str)
        Bound(element, missing, invalid, r) ==
            IF IsNone(element) \/ element.text = <<>>
            THEN AddError(r, missing, IntText(stop_number))
            ELSE IF ~_validate_datetime_format(element.text)
            THEN AddError(r, invalid, IntText(stop_number))
            ELSE r
    IN
    Bound(FindOr(period, "end"), "Stop: date_time_period missing end element",
          "Stop: invalid end date format",
          Bound(FindOr(period, "start"), "Stop: date_time_period missing start element",
                "Stop: invalid start date format", result))

RECURSIVE _validate_stops(_, _, _, _)
_validate_stops(stop_elements, i, stop_ids, result) ==
    LET InIds(text) == \E k \in 1..Len(stop_ids) : stop_ids[k] = text
        NoId(stop_id) == IsNone(stop_id) \/ stop_id.text = <<>>
        Id(stop_id, r) ==
            IF NoId(stop_id)
            THEN AddError(r, "Stop: missing or empty id element", IntText(i))
            ELSE IF InIds(stop_id.text)
            THEN AddError(r, "Duplicate stop ID", stop_id.text)
            ELSE r
        Ids(stop_id) ==
            IF NoId(stop_id) \/ InIds(stop_id.text) THEN stop_ids
            ELSE Append(stop_ids, stop_id.text)
        Index(stop_index, r) ==
            IF IsNone(stop_index)
            THEN AddError(r, "Stop: missing index element", IntText(i))
            ELSE r
        Location(location, r) ==
            IF IsNone(location)
            THEN AddError(r, "Stop: missing location element", IntText(i))
            ELSE _validate_location_structure(location, i, r)
        Period(date_time_period, r) ==
            IF IsNone(date_time_period)
            THEN AddError(r, "Stop: missing date_time_period element", IntText(i))
            ELSE _validate_date_time_period(date_time_period, i, r)
        Stop(stop, stop_id) ==
            _validate_stops(stop_elements, i + 1, Ids(stop_id),
                Period(FindOr(stop, "date_time_period"),
                    Location(FindOr(stop, "location"),
                        Index(FindOr(stop, "index"), Id(stop_id, result)))))
    IN
    IF i > Len(stop_elements) THEN result
    ELSE Stop(stop_elements[i], FindOr(stop_elements[i], "id"))

_validate_element_structure(transport_order, result) ==
    LET Orders(orders, r) ==
            IF IsNone(orders) THEN r
            ELSE IF IsNone(FindOr(orders, "order_details"))
            THEN AddError(r, "orders element must contain order_details", <<>>)
            ELSE _validate_order_details(FindOr(orders, "order_details"), r)
        Stops(stops, r) ==
            IF IsNone(stops) THEN r
            ELSE IF FindAllOr(stops, "stop") = <<>>
            THEN AddError(r, "stops element must contain at least one stop", <<>>)
            ELSE _validate_stops(FindAllOr(stops, "stop"), 1, <<>>, r)
    IN
    Stops(FindOr(transport_order, "stops"),
          Orders(FindOr(transport_order, "orders"), result))

validate_xml_structure(xml_content) ==
    LET Namespace(root, r) ==
            IF ~_validate_namespace(root)
            THEN AddError(r, "Missing or incorrect namespace", <<>>)
            ELSE r
        Root(root, r) ==
            IF ~(root.tag = "transport_orders" /\ root.ns \in {NAMESPACE, ""})
            THEN AddError(r, "Root element must be 'transport_orders'", <<>>)
            ELSE r
        Order(transport_order, r) ==
            IF IsNone(transport_order)
            THEN AddError(r, "No transport_order element found", <<>>)
            ELSE _validate_element_structure(transport_order,
                     _validate_required_elements(transport_order,
                         <<"number", "status", "scheduling_unit", "orders", "stops">>, r))
        \* transport_order = root.find(".//" + namespace + name); if it is
        \* None: root.find(".//" + name)
        Document(root) ==
            Order(IF IsNone(FindDeep(root, NAMESPACE, "transport_order"))
                  THEN FindDeep(root, "", "transport_order")
                  ELSE FindDeep(root, NAMESPACE, "transport_order"),
                  Root(root, Namespace(root, NewResult)))
        Parsed(parsed) == IF ~parsed.ok THEN ParseErrorResult ELSE Document(parsed.root)
    IN
    Parsed(fromstring(xml_content))

(***************************************************************************)
(* Field rules (validation/field_rules.json).  A rule is a record; 0, ""   *)
(* and {} stand for an absent min/max length, type and allowed-value set.  *)
(***************************************************************************)
FieldRules ==
    << <<"number", [required |-> TRUE, type |-> "", min_length |-> 1,
                    max_length |-> 35, pattern |-> "^\\S+$",
                    allowed_values |-> {}]>>,
       <<"status", [required |-> TRUE, type |-> "", min_length |-> 0,
                    max_length |-> 3, pattern |-> "", allowed_values |-> {"N", "D", "NTO"}]>>,
       <<"carrier_creditor_number", [required |-> FALSE, type |-> "", min_length |-> 0,
                    max_length |-> 35, pattern |-> "", allowed_values |-> {}]>> >>

RECURSIVE CharLen(_)
CharLen(text) == IF text = <<>> THEN 0 ELSE Len(Head(text)) + CharLen(Tail(text))

\* ^[A-Z0-9]{4}$
IsScac(text) == Len(text) = 1 /\ text[1] \in {"MAEU", "MSCU", "AB12"}

_apply_field_validation(field_name, value, rules, result) ==
    LET Check(failed, msg, r) == IF failed THEN AddError(r, msg, <<field_name>>) ELSE r
        \* the words float() accepts
        NumericWords == {"0", "1", "2", "3", "0.0", "845.0", "23106", "1153", "1404338",
                         "0081310198", "0000203512", "0000999999"}
        \* re.match(pattern, value) for the patterns of the field rules
        PatternMatches(pattern) ==
            IF pattern = "^\\S+$"
            THEN value # <<>> /\ \A i \in 1..Len(value) : ~IsWs(value[i])
            ELSE TRUE
    IN
    IF rules.required /\ value = <<>>
    THEN AddError(result, "Field is required but empty", <<field_name>>)
    ELSE IF rules.type = "number" /\ ~(Len(value) = 1 /\ value[1] \in NumericWords)
    THEN AddError(result, "Field must be a number", <<field_name>>)
    ELSE Check(/\ rules.allowed_values # {}
               /\ ~(Len(value) = 1 /\ value[1] \in rules.allowed_values),
               "Field must be one of the allowed values",
           Check(rules.pattern # "" /\ ~PatternMatches(rules.pattern),
                 "Field format is invalid",
             Check(rules.max_length # 0 /\ CharLen(value) > rules.max_length,
                   "Field is too long",
               Check(rules.min_length # 0 /\ CharLen(value) < rules.min_length,
                     "Field is too short", result))))

RECURSIVE _validate_transport_order_fields(_, _, _)
_validate_transport_order_fields(transport_order, field_rules, result) ==
    LET Applied(field_name, rules, element) ==
            IF ~IsNone(element) /\ element.text # <<>>
            THEN _apply_field_validation(field_name, element.text, rules, result)
            ELSE result
    IN
    IF field_rules = <<>> THEN result
    ELSE _validate_transport_order_fields(transport_order, Tail(field_rules),
             Applied(Head(field_rules)[1], Head(field_rules)[2],
                   Find(transport_order, "", Head(field_rules)[1])))

_validate_parameter_formats(transport_order, result) ==
    LET Scac(qualifier, value_elem, r) ==
            IF /\ qualifier = <<"ocean.scac.no">>
               /\ ~IsNone(value_elem)
               /\ value_elem.text # <<>>
               /\ ~IsScac(value_elem.text)
            THEN AddError(r, "Invalid SCAC code format", value_elem.text)
            ELSE r
        RECURSIVE Params(_, _)
        Params(params, r) ==
            IF params = <<>> THEN r
            ELSE Params(Tail(params),
                        Scac(Get(Head(params), "qualifier"),
                             Find(Head(params), "", "value"), r))
    IN
    IF IsNone(Find(transport_order, "", "parameters")) THEN result
    ELSE Params(FindAll(Find(transport_order, "", "parameters"), "", "parameter"),
                result)

NoTransportOrder == AddError(NewResult, "No transport_order element found", <<>>)

\* the prologue the validators other than validate_xml_structure share:
\* root = ET.fromstring(xml_content), with ET.ParseError caught, and
\* transport_order = root.find(".//" + namespace + "transport_order")
TransportOrder(parsed) == FindDeep(parsed.root, NAMESPACE, "transport_order")

validate_field_formats(xml_content) ==
    LET Order(parsed, transport_order) ==
            IF ~parsed.ok THEN ParseErrorResult
            ELSE IF IsNone(transport_order) THEN NoTransportOrder
            ELSE _validate_parameter_formats(transport_order,
                     _validate_transport_order_fields(transport_order, FieldRules,
                                                      NewResult))
        Parsed(parsed) == Order(parsed, TransportOrder(parsed))
    IN
    Parsed(fromstring(xml_content))

_validate_stop_id_references(order_details, stop_ids, result) ==
    LET RECURSIVE Refs(_, _, _)
        Refs(refs, msg, r) ==
            IF refs = <<>> THEN r
            ELSE Refs(Tail(refs), msg,
                      IF Head(refs).text # <<>> /\ Head(refs).text \notin stop_ids
                      THEN AddError(r, msg, Head(refs).text)
                      ELSE r)
        Container(container, name, msg, r) ==
            IF IsNone(container) THEN r
            ELSE Refs(FindAll(container, "", name), msg, r)
    IN
    Container(Find(order_details, "", "unloading_stop_ids"), "unloading_stop_id",
              "Unloading stop ID does not reference an existing stop",
        Container(Find(order_details, "", "loading_stop_ids"), "loading_stop_id",
                  "Loading stop ID does not reference an existing stop", result))

validate_stop_references(xml_content) ==
    LET \* the texts of the non-empty <id> children of the <stop> children
        Texts(ss) ==
            {Find(ss[i], "", "id").text :
                i \in {j \in 1..Len(ss) : Find(ss[j], "", "id").text # <<>>}}
        StopIds(stops) ==
            IF IsNone(stops) THEN {} ELSE Texts(FindAll(stops, "", "stop"))
        Details(orders) == Find(orders, "", "order_details")
        Order(parsed, transport_order) ==
            IF ~parsed.ok THEN ParseErrorResult
            ELSE IF IsNone(transport_order) THEN NoTransportOrder
            ELSE IF \/ IsNone(Find(transport_order, "", "orders"))
                    \/ IsNone(Details(Find(transport_order, "", "orders")))
            THEN NewResult
            ELSE _validate_stop_id_references(
                     Details(Find(transport_order, "", "orders")),
                     StopIds(Find(transport_order, "", "stops")), NewResult)
        Parsed(parsed) == Order(parsed, TransportOrder(parsed))
    IN
    Parsed(fromstring(xml_content))

(***************************************************************************)
(* Business rules (validation/business_rules.json), per transport type.    *)
(***************************************************************************)
TransportTypes == {"simple_road", "complex_road", "ocean_visibility"}

OceanFixedValues ==
    << <<"scheduling_unit", <<"Ocean Visibility">> >>,
       <<"carrier_creditor_number", <<"Ocean">> >>,
       <<"status", <<"NTO">> >> >>

BusinessRules(transport_type) ==
    LET ForbiddenOceanParams ==
            {"ocean.scac.no", "ocean.bl.no", "ocean.container.no",
             "visibility.ocean.product"} IN
    CASE transport_type = "simple_road" ->
           [required_elements |-> <<"number", "status", "scheduling_unit", "orders", "stops">>,
            minimum_stops |-> 2, has_maximum |-> FALSE, maximum_stops |-> 0,
            fixed_values |-> <<>>,
            forbidden_qualifiers |-> ForbiddenOceanParams,
            required_parameters |-> <<>>, mandatory_fixed_parameters |-> <<>>,
            requires_carrier_creditor |-> FALSE, allows_order_items |-> FALSE]
      [] transport_type = "complex_road" ->
           [required_elements |-> <<"number", "status", "scheduling_unit",
                                    "carrier_creditor_number", "orders", "stops">>,
            minimum_stops |-> 2, has_maximum |-> TRUE, maximum_stops |-> 20,
            fixed_values |-> <<>>,
            forbidden_qualifiers |-> ForbiddenOceanParams,
            required_parameters |-> <<>>, mandatory_fixed_parameters |-> <<>>,
            requires_carrier_creditor |-> TRUE, allows_order_items |-> TRUE]
      [] OTHER ->
           [required_elements |-> <<"number", "status", "scheduling_unit", "orders", "stops">>,
            minimum_stops |-> 2, has_maximum |-> TRUE, maximum_stops |-> 2,
            fixed_values |-> OceanFixedValues,
            forbidden_qualifiers |-> {},
            required_parameters |-> <<"visibility.ocean.product", "ocean.scac.no",
                                      "ocean.bl.no", "ocean.container.no">>,
            mandatory_fixed_parameters |-> << <<"visibility.ocean.product", <<"true">> >> >>,
            requires_carrier_creditor |-> FALSE, allows_order_items |-> FALSE]

OrderItemRules ==
    [required_fields |-> <<"number", "short_description", "material_number">>,
     required_quantities |-> <<"weight">>,
     required_parameters |-> <<"material", "plantCode", "unitOfMeasurement">>]

(***************************************************************************)
(* BusinessValidator.validate_transport_type_rules.                        *)
(***************************************************************************)
_validate_stop_counts(transport_order, transport_type, rules, result) ==
    LET Minimum(stop_count, r) ==
            IF stop_count < rules.minimum_stops
            THEN AddError(r, "Minimum stops required",
                          <<transport_type>> \o IntText(stop_count))
            ELSE r
        Maximum(stop_count, r) ==
            IF rules.has_maximum /\ stop_count > rules.maximum_stops
            THEN AddError(r, "Maximum stops allowed",
                          <<transport_type>> \o IntText(stop_count))
            ELSE r
        Counted(stop_count) == Maximum(stop_count, Minimum(stop_count, result))
    IN
    IF IsNone(Find(transport_order, "", "stops")) THEN result
    ELSE Counted(Len(FindAll(Find(transport_order, "", "stops"), "", "stop")))

RECURSIVE _validate_ocean_fixed_values(_, _, _)
_validate_ocean_fixed_values(transport_order, fixed_values, result) ==
    LET Fixed(field, expected, element) ==
            IF IsNone(element)
            THEN AddError(result, "Ocean visibility: Missing required field", <<field>>)
            ELSE IF element.text # expected
            THEN AddError(result, "Ocean visibility: Field must have the fixed value",
                          <<field>>)
            ELSE result
    IN
    IF fixed_values = <<>> THEN result
    ELSE _validate_ocean_fixed_values(transport_order, Tail(fixed_values),
             Fixed(Head(fixed_values)[1], Head(fixed_values)[2],
                   Find(transport_order, "", Head(fixed_values)[1])))

\* the qualifier attributes of the parameter elements
Qualifiers(params) == {Get(params[i], "qualifier") : i \in 1..Len(params)}

\* for qualifier in required: if qualifier not in existing: errors.append
RECURSIVE MissingQualifiers(_, _, _, _)
MissingQualifiers(required, existing, msg, result) ==
    IF required = <<>> THEN result
    ELSE MissingQualifiers(Tail(required), existing, msg,
             IF <<Head(required)>> \notin existing
             THEN AddError(result, msg, <<Head(required)>>)
             ELSE result)

_validate_required_parameters(transport_order, required_params, result) ==
    IF IsNone(Find(transport_order, "", "parameters"))
    THEN IF required_params # <<>>
         THEN AddError(result, "Required parameters section is missing", <<>>)
         ELSE result
    ELSE MissingQualifiers(required_params,
             Qualifiers(FindAll(Find(transport_order, "", "parameters"), "", "parameter")),
             "Required parameter is missing", result)

_validate_mandatory_fixed_parameters(transport_order, mandatory_fixed, result) ==
    LET Hit(qualifier) ==
            {i \in 1..Len(mandatory_fixed) : <<mandatory_fixed[i][1]>> = qualifier}
        Fixed(qualifier, value_elem, r) ==
            IF /\ Hit(qualifier) # {}
               /\ \/ IsNone(value_elem)
                  \/ value_elem.text # mandatory_fixed[CHOOSE i \in Hit(qualifier) : TRUE][2]
            THEN AddError(r, "Parameter must have the fixed value", qualifier)
            ELSE r
        RECURSIVE Params(_, _)
        Params(params, r) ==
            IF params = <<>> THEN r
            ELSE Params(Tail(params),
                        Fixed(Get(Head(params), "qualifier"),
                              Find(Head(params), "", "value"), r))
    IN
    IF IsNone(Find(transport_order, "", "parameters")) THEN result
    ELSE Params(FindAll(Find(transport_order, "", "parameters"), "", "parameter"),
                result)

_validate_parameter_restrictions(transport_order, transport_type, rules, result) ==
    LET Forbidden(qualifier, r) ==
            IF Len(qualifier) = 1 /\ qualifier[1] \in rules.forbidden_qualifiers
            THEN AddError(r, "Forbidden parameter is not allowed",
                          <<transport_type>> \o qualifier)
            ELSE r
        RECURSIVE Params(_, _)
        Params(params, r) ==
            IF params = <<>> THEN r
            ELSE Params(Tail(params), Forbidden(Get(Head(params), "qualifier"), r))
        Section(parameters, r) ==
            IF IsNone(parameters) THEN r
            ELSE Params(FindAll(parameters, "", "parameter"), r)
    IN
    _validate_mandatory_fixed_parameters(transport_order,
        rules.mandatory_fixed_parameters,
        IF transport_type = "ocean_visibility"
        THEN _validate_required_parameters(transport_order, rules.required_parameters,
                 Section(Find(transport_order, "", "parameters"), result))
        ELSE Section(Find(transport_order, "", "parameters"), result))

_validate_order_items_rules(transport_order, result) ==
    LET RECURSIVE Fields(_, _, _, _)
        Fields(item, i, fields, r) ==
            IF fields = <<>> THEN r
            ELSE Fields(item, i, Tail(fields),
                     IF \/ IsNone(Find(item, "", Head(fields)))
                        \/ Find(item, "", Head(fields)).text = <<>>
                     THEN AddError(r, "Order item: Missing required field",
                                   IntText(i) \o <<Head(fields)>>)
                     ELSE r)
        RECURSIVE Recommended(_, _, _, _, _)
        Recommended(required, existing, msg, i, r) ==
            IF required = <<>> THEN r
            ELSE Recommended(Tail(required), existing, msg, i,
                     IF <<Head(required)>> \notin existing
                     THEN AddWarning(r, msg, IntText(i) \o <<Head(required)>>)
                     ELSE r)
        Texts(qs) ==
            {Find(qs[i], "", "qualifier").text :
                i \in {j \in 1..Len(qs) : Find(qs[j], "", "qualifier").text # <<>>}}
        Quantities(quantities, i, r) ==
            IF IsNone(quantities) THEN r
            ELSE Recommended(OrderItemRules.required_quantities,
                     Texts(FindAll(quantities, "", "quantity")),
                     "Order item: Recommended quantity is missing", i, r)
        Parameters(item_params, i, r) ==
            IF IsNone(item_params) THEN r
            ELSE Recommended(OrderItemRules.required_parameters,
                     Qualifiers(FindAll(item_params, "", "parameter")),
                     "Order item: Recommended parameter is missing", i, r)
        RECURSIVE Items(_, _, _)
        Items(items, i, r) ==
            IF i > Len(items) THEN r
            ELSE Items(items, i + 1,
                     Parameters(Find(items[i], "", "parameters"), i,
                         Quantities(Find(items[i], "", "quantities"), i,
                             Fields(items[i], i, OrderItemRules.required_fields, r))))
        Details(orders) == Find(orders, "", "order_details")
        OrderItemsOf(orders) == Find(Details(orders), "", "order_items")
        Orders(orders) ==
            IF IsNone(orders) \/ IsNone(Details(orders)) \/ IsNone(OrderItemsOf(orders))
            THEN result
            ELSE Items(FindAll(OrderItemsOf(orders), "", "order_item"), 1, result)
    IN
    Orders(Find(transport_order, "", "orders"))

_validate_complex_road_rules(transport_order, rules, result) ==
    LET Carrier(carrier_elem, r) ==
            IF /\ rules.requires_carrier_creditor
               /\ (IsNone(carrier_elem) \/ carrier_elem.text = <<>>)
            THEN AddError(r, "Complex road freight requires carrier_creditor_number", <<>>)
            ELSE r
    IN
    IF rules.allows_order_items
    THEN _validate_order_items_rules(transport_order,
             Carrier(Find(transport_order, "", "carrier_creditor_number"), result))
    ELSE Carrier(Find(transport_order, "", "carrier_creditor_number"), result)

_validate_transport_specific_rules(transport_order, transport_type, rules, result) ==
    LET RECURSIVE Required(_, _)
        Required(names, r) ==
            IF names = <<>> THEN r
            ELSE Required(Tail(names),
                     IF IsNone(FindOr(transport_order, Head(names)))
                     THEN AddError(r, "Required element is missing for the type",
                                   <<transport_type, Head(names)>>)
                     ELSE r)
        Fixed(r) ==
            IF transport_type = "ocean_visibility"
            THEN _validate_ocean_fixed_values(transport_order, rules.fixed_values, r)
            ELSE r
        Complex(r) ==
            IF transport_type = "complex_road"
            THEN _validate_complex_road_rules(transport_order, rules, r)
            ELSE r
    IN
    Complex(_validate_parameter_restrictions(transport_order, transport_type, rules,
        Fixed(_validate_stop_counts(transport_order, transport_type, rules,
            Required(rules.required_elements, result)))))

validate_transport_type_rules(xml_content, transport_type) ==
    LET Order(parsed, transport_order) ==
            IF ~parsed.ok THEN ParseErrorResult
            ELSE IF IsNone(transport_order) THEN NoTransportOrder
            ELSE IF transport_type \in TransportTypes
            THEN _validate_transport_specific_rules(transport_order, transport_type,
                     BusinessRules(transport_type), NewResult)
            ELSE NewResult
        Parsed(parsed) == Order(parsed, TransportOrder(parsed))
    IN
    Parsed(fromstring(xml_content))

(***************************************************************************)
(* BusinessValidator.validate_cross_field_consistency.                     *)
(***************************************************************************)
_validate_carrier_creditor_consistency(transport_order, result) ==
    LET Order(value_elem, transport_carrier, r) ==
            IF ~IsNone(value_elem) /\ value_elem.text # transport_carrier
            THEN AddWarning(r,
                   "Carrier creditor number inconsistency between transport and order levels",
                   <<>>)
            ELSE r
        RECURSIVE Params(_, _, _)
        Params(params, transport_carrier, r) ==
            IF params = <<>> THEN r
            ELSE Params(Tail(params), transport_carrier,
                     IF Get(Head(params), "qualifier")
                            = <<"custom.preassignedCarrierCreditorNumber">>
                     THEN Order(Find(Head(params), "", "value"), transport_carrier, r)
                     ELSE r)
        Carrier(transport_carrier_elem, parameters) ==
            IF IsNone(transport_carrier_elem) \/ transport_carrier_elem.text = <<>>
            THEN result
            ELSE IF IsNone(parameters) THEN result
            ELSE Params(FindAll(parameters, "", "parameter"),
                        transport_carrier_elem.text, result)
    IN
    Carrier(Find(transport_order, "", "carrier_creditor_number"),
            Find(transport_order, "", "parameters"))

_validate_date_sequence(transport_order, result) ==
    LET \* datetime.fromisoformat of the start text after the code has cut a
        \* "+hh:mm" offset or a "Z" from it: a "-hh:mm" offset stays, and the
        \* value is aware
        DateObj(d) ==
            IF d.tz = "-" THEN [aware |-> TRUE, at |-> d.local - d.off]
            ELSE [aware |-> FALSE, at |-> d.local]
        Start(stop) == Find(Find(stop, "", "date_time_period"), "", "start")
        \* the parsed start of every stop that has one, in document order
        Dates(dated) == [i \in 1..Len(dated) |-> DateObj(IsoTable[Start(dated[i]).text[1]])]
        StopDates(stop_elements) ==
            Dates(SelectSeq(stop_elements, LAMBDA stop : IsIsoDateTime(Start(stop).text)))
        \* "ok", "warn" (an earlier date follows a later one) or "raise"
        \* (TypeError: can't compare offset-naive and offset-aware datetimes)
        RECURSIVE Compare(_, _)
        Compare(stop_dates, i) ==
            IF i > Len(stop_dates) THEN "ok"
            ELSE IF stop_dates[i].aware # stop_dates[i - 1].aware THEN "raise"
            ELSE IF stop_dates[i].at < stop_dates[i - 1].at THEN "warn"
            ELSE Compare(stop_dates, i + 1)
        Sequence(outcome) ==
            IF outcome = "raise" THEN Raised
            ELSE IF outcome = "warn"
            THEN AddWarning(result,
                   "Stop dates may not be in logical sequence - verify pickup and delivery order",
                   <<>>)
            ELSE result
    IN
    IF IsNone(Find(transport_order, "", "stops")) THEN result
    ELSE Sequence(Compare(
             StopDates(FindAll(Find(transport_order, "", "stops"), "", "stop")), 2))

_validate_stop_index_sequence(transport_order, result) ==
    LET \* indices.append(int(index_elem.text)), a ValueError reported
        RECURSIVE Indices(_, _, _)
        Indices(stop_elements, indices, r) ==
            IF stop_elements = <<>> THEN <<indices, r>>
            ELSE IF \/ IsNone(Find(Head(stop_elements), "", "index"))
                    \/ Find(Head(stop_elements), "", "index").text = <<>>
            THEN Indices(Tail(stop_elements), indices, r)
            ELSE IF ParseInt(Find(Head(stop_elements), "", "index").text)[1]
            THEN Indices(Tail(stop_elements),
                         Append(indices,
                                ParseInt(Find(Head(stop_elements), "", "index").text)[2]),
                         r)
            ELSE Indices(Tail(stop_elements), indices,
                         AddError(r, "Stop index must be a number", <<>>))
        Start(indices, r) ==
            IF indices[1] # 0
            THEN AddError(r, "Stop indices should start from 0", <<>>)
            ELSE r
        Sequential(indices, r) ==
            IF \E i \in 2..Len(indices) : indices[i] # indices[i - 1] + 1
            THEN AddError(r, "Stop indices should be sequential", <<>>)
            ELSE r
        Sorted(indices, r) ==
            IF indices = <<>> THEN r ELSE Sequential(indices, Start(indices, r))
        Found(found) == Sorted(SortSeq(found[1], <), found[2])
    IN
    IF IsNone(Find(transport_order, "", "stops")) THEN result
    ELSE Found(Indices(FindAll(Find(transport_order, "", "stops"), "", "stop"),
                       <<>>, result))

validate_cross_field_consistency(xml_content) ==
    LET Dated(transport_order, r) ==
            IF r.raised THEN Raised
            ELSE _validate_stop_index_sequence(transport_order, r)
        Order(parsed, transport_order) ==
            IF ~parsed.ok THEN ParseErrorResult
            ELSE IF IsNone(transport_order) THEN NoTransportOrder
            ELSE Dated(transport_order,
                     _validate_date_sequence(transport_order,
                         _validate_carrier_creditor_consistency(transport_order,
                                                                NewResult)))
        Parsed(parsed) == Order(parsed, TransportOrder(parsed))
    IN
    Parsed(fromstring(xml_content))

(***************************************************************************)
(* BusinessValidator.validate_ocean_completeness.                          *)
(***************************************************************************)
validate_ocean_completeness(xml_content) ==
    LET required_ocean_params ==
            <<"visibility.ocean.product", "ocean.scac.no", "ocean.bl.no",
              "ocean.container.no">>
        Value(qualifier, value_elem, r) ==
            IF qualifier = <<"visibility.ocean.product">>
            THEN IF IsNone(value_elem) \/ value_elem.text # <<"true">>
                 THEN AddError(r, "Ocean visibility parameter must be 'true'", <<>>)
                 ELSE r
            ELSE IF /\ qualifier = <<"ocean.scac.no">>
                    /\ ~IsNone(value_elem)
                    /\ value_elem.text # <<>>
                    /\ ~IsScac(value_elem.text)
            THEN AddError(r, "Invalid SCAC code format", value_elem.text)
            ELSE r
        RECURSIVE Values(_, _)
        Values(params, r) ==
            IF params = <<>> THEN r
            ELSE Values(Tail(params),
                        Value(Get(Head(params), "qualifier"),
                              Find(Head(params), "", "value"), r))
        Params(params) ==
            Values(params,
                   MissingQualifiers(required_ocean_params, Qualifiers(params),
                       "Ocean visibility: Missing required parameter", NewResult))
        Order(parsed, transport_order, scheduling_unit, parameters) ==
            IF ~parsed.ok THEN ParseErrorResult
            ELSE IF IsNone(transport_order) THEN NoTransportOrder
            ELSE IF IsNone(scheduling_unit) \/ scheduling_unit.text # <<"Ocean Visibility">>
            THEN NewResult
            ELSE IF IsNone(parameters)
            THEN AddError(NewResult,
                          "Ocean visibility orders must have parameters section", <<>>)
            ELSE Params(FindAll(parameters, "", "parameter"))
        Parsed(parsed) ==
            Order(parsed, TransportOrder(parsed),
                  Find(TransportOrder(parsed), "", "scheduling_unit"),
                  Find(TransportOrder(parsed), "", "parameters"))
    IN
    Parsed(fromstring(xml_content))

(***************************************************************************)
(* main_tool.validate_transport_order_xml: the stages in order, their      *)
(* errors and warnings accumulated.  An exception of a stage is caught by  *)
(* the operation and reported without a validation result.                 *)
(***************************************************************************)
\* the response when a stage raises: it carries neither is_valid nor errors
validate_transport_order_xml(xml_content, transport_type) ==
    LET Extend(result, stage) ==
            [result EXCEPT !.is_valid = @ /\ stage.is_valid,
                           !.errors = IF stage.is_valid THEN @ ELSE @ \o stage.errors,
                           !.warnings = @ \o stage.warnings]
        Ocean(result) ==
            IF transport_type = "ocean_visibility"
            THEN Extend(result, validate_ocean_completeness(xml_content))
            ELSE result
    IN
    IF validate_cross_field_consistency(xml_content).raised
    THEN [success |-> FALSE, error_message |-> "Validation error"]
    ELSE Ocean(
           Extend(
             Extend(
               Extend(
                 Extend(
                   Extend([success |-> TRUE, is_valid |-> TRUE, errors |-> <<>>,
                           warnings |-> <<>>],
                          validate_xml_structure(xml_content)),
                   validate_field_formats(xml_content)),
                 validate_stop_references(xml_content)),
               validate_transport_type_rules(xml_content, transport_type)),
             validate_cross_field_consistency(xml_content)))

(***************************************************************************)
(* Python values.  A dict built by the code is a sequence of <<key,       *)
(* value>> pairs in insertion order; the caller's input is a record whose  *)
(* fields are the keys it supplies.  A number is [float, n]: str() of a    *)
(* float writes ".0" after an integral value.                              *)
(***************************************************************************)
DictHas(d, k) == \E i \in 1..Len(d) : d[i][1] = k

DictGet(d, k) == d[CHOOSE i \in 1..Len(d) : d[i][1] = k][2]

DictGetOr(d, k, default) == IF DictHas(d, k) THEN DictGet(d, k) ELSE default

\* d[k] = v: a new key goes last, a known key keeps its place
DictSet(d, k, v) ==
    IF DictHas(d, k)
    THEN [i \in 1..Len(d) |-> IF d[i][1] = k THEN <<k, v>> ELSE d[i]]
    ELSE Append(d, <<k, v>>)

RECURSIVE DictUpdate(_, _)
DictUpdate(d, other) ==
    IF other = <<>> THEN d
    ELSE DictUpdate(DictSet(d, Head(other)[1], Head(other)[2]), Tail(other))

Has(user_input, k) == k \in DOMAIN user_input

GetOr(user_input, k, default) == IF Has(user_input, k) THEN user_input[k] ELSE default

Int_(n) == [float |-> FALSE, n |-> n]

Float(n) == [float |-> TRUE, n |-> n]

\* a text where the code expects a number or a dict
Str_(text) == [str |-> text]

IsNumber(v) == "n" \in DOMAIN v

IsStr(v) == "str" \in DOMAIN v

\* str(value) of a number
NumStr(v) ==
    LET RECURSIVE DigitsOf(_)
        DigitsOf(n) ==
            IF n < 10 THEN <<Digits[n + 1]>>
            ELSE Append(DigitsOf(n \div 10), Digits[(n % 10) + 1]) IN
    (IF v.n < 0 THEN <<"-">> ELSE <<>>)
    \o DigitsOf(IF v.n < 0 THEN -v.n ELSE v.n)
    \o (IF v.float THEN <<".0">> ELSE <<>>)

(***************************************************************************)
(* Markup text.  One SP after a NL stands for the indentation of a line.   *)
(***************************************************************************)
Open(name) == <<"<", name, ">">>

Close(name) == <<"<", "/", name, ">">>

El(name, text) == Open(name) \o text \o Close(name)

Attr(name, value) == <<" ", name, "=", "\"">> \o value \o <<"\"">>

OpenWith(name, attrs) == <<"<", name>> \o attrs \o <<">">>

Line(text) == <<"\n", " ">> \o text

(***************************************************************************)
(* The templates of the store (data/templates), one per transport type.    *)
(* layout is how the store writes the namespace: "qualified" declares it   *)
(* as the default namespace of the root, "bare" declares none.             *)
(***************************************************************************)
Layouts == {"qualified", "bare"}

DepartureNames ==
    [company_name |-> "departure_company_name", street |-> "departure_street",
     zip |-> "departure_zip", city |-> "departure_city",
     country |-> "departure_country", start |-> "departure_start_date",
     end |-> "departure_end_date"]

ArrivalNames ==
    [company_name |-> "arrival_company_name", street |-> "arrival_street",
     zip |-> "arrival_zip", city |-> "arrival_city",
     country |-> "arrival_country", start |-> "arrival_start_date",
     end |-> "arrival_end_date"]

load_template(transport_type, layout) ==
    LET RootOpen ==
            IF layout = "qualified"
            THEN OpenWith("transport_orders", Attr("xmlns", <<NAMESPACE>>))
            ELSE Open("transport_orders")
        Head_ ==
            RootOpen
            \o Line(Open("transport_order"))
            \o Line(El("number", Placeholder("transport_number")))
            \o Line(El("status", Placeholder("status")))
            \o Line(El("scheduling_unit", Placeholder("scheduling_unit")))
            \o Line(El("carrier_creditor_number", Placeholder("carrier_creditor_number")))
        StopIdLists ==
            Line(Open("loading_stop_ids")) \o Placeholder("loading_stop_ids")
            \o Line(Close("loading_stop_ids"))
            \o Line(Open("unloading_stop_ids")) \o Placeholder("unloading_stop_ids")
            \o Line(Close("unloading_stop_ids"))
        Foot ==
            Line(Close("transport_order")) \o <<"\n">> \o Close("transport_orders")
        SimpleRoadTemplate ==
            Head_
            \o Line(Placeholder("vehicle_element"))
            \o Line(Placeholder("prices_element"))
            \o Line(Open("orders"))
            \o Line(Open("order_details"))
            \o Line(El("number", Placeholder("order_number")))
            \o Line(Placeholder("weight_element"))
            \o Line(Placeholder("loading_meter_element"))
            \o Line(Placeholder("distance_element"))
            \o Line(Placeholder("comment_element"))
            \o StopIdLists
            \o Line(Close("order_details"))
            \o Line(Close("orders"))
            \o Line(Placeholder("parameters_element"))
            \o Line(Open("stops")) \o Placeholder("stops")
            \o Line(Close("stops"))
            \o Foot
        ComplexRoadTemplate ==
            Head_
            \o Line(Placeholder("weight_element"))
            \o Line(Placeholder("volume_element"))
            \o Line(Open("orders"))
            \o Line(Open("order_details"))
            \o Line(El("number", Placeholder("order_number")))
            \o Line(Placeholder("incoterms_element"))
            \o StopIdLists
            \o Line(Placeholder("order_items_element"))
            \o Line(Placeholder("order_parameters_element"))
            \o Line(Close("order_details"))
            \o Line(Close("orders"))
            \o Line(Placeholder("transport_parameters_element"))
            \o Line(Open("stops")) \o Placeholder("stops")
            \o Line(Close("stops"))
            \o Foot
        OceanParameter(qualifier, value) ==
            Line(OpenWith("parameter", Attr("qualifier", <<qualifier>>))
                 \o El("value", value) \o Close("parameter"))
        OceanStop(id, index, names) ==
            Line(Open("stop"))
            \o Line(El("id", <<id>>))
            \o Line(El("index", <<index>>))
            \o Line(Open("location"))
            \o Line(El("company_name", Placeholder(names.company_name)))
            \o Line(El("street", Placeholder(names.street)))
            \o Line(El("zip", Placeholder(names.zip)))
            \o Line(El("city", Placeholder(names.city)))
            \o Line(El("country", Placeholder(names.country)))
            \o Line(Close("location"))
            \o Line(Open("date_time_period"))
            \o Line(El("start", Placeholder(names.start)))
            \o Line(El("end", Placeholder(names.end)))
            \o Line(Close("date_time_period"))
            \o Line(Close("stop"))
        OceanVisibilityTemplate ==
            Head_
            \o Line(Open("orders"))
            \o Line(Open("order_details"))
            \o Line(El("number", Placeholder("order_number")))
            \o StopIdLists
            \o Line(Close("order_details"))
            \o Line(Close("orders"))
            \o Line(Open("parameters"))
            \o OceanParameter("visibility.ocean.product", <<"true">>)
            \o OceanParameter("ocean.scac.no", Placeholder("scac_code"))
            \o OceanParameter("ocean.bl.no", Placeholder("bl_number"))
            \o OceanParameter("ocean.container.no", Placeholder("container_number"))
            \o OceanParameter("ocean.booking.no", Placeholder("booking_number"))
            \o Line(Close("parameters"))
            \o Line(Open("stops"))
            \o OceanStop("Departure", "0", DepartureNames)
            \o OceanStop("Arrival", "1", ArrivalNames)
            \o Line(Close("stops"))
            \o Foot IN
    CASE transport_type = "simple_road" -> SimpleRoadTemplate
      [] transport_type = "complex_road" -> ComplexRoadTemplate
      [] OTHER -> OceanVisibilityTemplate

(***************************************************************************)
(* The field-requirement tables of the store (data/parameters).            *)
(***************************************************************************)
Field(name) == [name |-> name, has_default |-> FALSE, default |-> <<>>]

get_transport_parameters(transport_type) ==
    LET FieldWithDefault(name, default) ==
            [name |-> name, has_default |-> TRUE, default |-> default] IN
    CASE transport_type = "simple_road" ->
           [required_fields |-> <<Field("number"), FieldWithDefault("status", <<"N">>),
                                  Field("scheduling_unit")>>,
            optional_fields |-> <<Field("carrier_creditor_number"), Field("vehicle"),
                                  Field("price_reference"), Field("price_currency"),
                                  Field("price_mode")>>]
      [] transport_type = "complex_road" ->
           [required_fields |-> <<Field("number"), FieldWithDefault("status", <<"N">>),
                                  Field("scheduling_unit"),
                                  Field("carrier_creditor_number")>>,
            optional_fields |-> <<Field("weight_value"), Field("volume_value")>>]
      [] OTHER ->
           [required_fields |-> <<Field("number")>>,
            optional_fields |-> <<>>]

get_order_parameters(transport_type) ==
    CASE transport_type = "simple_road" ->
           [required_fields |-> <<Field("loading_stop_ids"), Field("unloading_stop_ids")>>,
            optional_fields |-> <<Field("order_number"), Field("weight_value"),
                                  Field("distance_value"), Field("comment")>>]
      [] transport_type = "complex_road" ->
           [required_fields |-> <<Field("loading_stop_ids"), Field("unloading_stop_ids")>>,
            optional_fields |-> <<Field("order_number"), Field("incoterms")>>]
      [] OTHER ->
           [required_fields |-> <<>>,
            optional_fields |-> <<Field("order_number"), Field("loading_stop_ids"),
                                  Field("unloading_stop_ids")>>]

OceanParameters ==
    << [name |-> "ocean.scac.no", required |-> TRUE],
       [name |-> "ocean.bl.no", required |-> TRUE],
       [name |-> "ocean.container.no", required |-> TRUE],
       [name |-> "ocean.booking.no", required |-> FALSE] >>

\* the business rules of the store, as declared
business_rules ==
    << [id |-> "carrier_creditor_status_rule", priority |-> 2,
        applies_to |-> {"simple_road", "complex_road"},
        field_patterns |-> <<>>, target_field |-> "",
        field |-> "carrier_creditor_number", operator |-> "has_value",
        action_field |-> "status", value |-> <<"NTO">>],
       [id |-> "carrier_id_mapping_rule", priority |-> 1,
        applies_to |-> {"simple_road", "complex_road"},
        field_patterns |-> <<"carrier_id", "carrier">>,
        target_field |-> "carrier_creditor_number",
        field |-> "", operator |-> "", action_field |-> "", value |-> <<>>] >>

(***************************************************************************)
(* BusinessRulesProcessor.                                                 *)
(***************************************************************************)
\* the truth value of a caller's value: an empty text or list is false
Truth(v) == v # <<>>

\* the last alternative source field wins, whatever the draft holds
_apply_last_mapping_rule(rule, user_input, collected_data) ==
    LET Given == {i \in 1..Len(rule.field_patterns) :
                      /\ Has(user_input, rule.field_patterns[i])
                      /\ Truth(user_input[rule.field_patterns[i]])}
        Last == rule.field_patterns[CHOOSE i \in Given : \A j \in Given : j <= i]
    IN
    IF Given = {} THEN collected_data
    ELSE DictSet(collected_data, rule.target_field, user_input[Last])

_apply_field_mapping_rule(rule, user_input, collected_data) ==
    LET RECURSIVE FirstPattern(_)
        FirstPattern(field_patterns) ==
            IF field_patterns = <<>> THEN ""
            ELSE IF /\ Has(user_input, Head(field_patterns))
                    /\ Truth(user_input[Head(field_patterns)])
            THEN Head(field_patterns)
            ELSE FirstPattern(Tail(field_patterns))
        Mapped(pattern) ==
            IF pattern = "" THEN collected_data
            ELSE DictSet(collected_data, rule.target_field, user_input[pattern]) IN
    IF rule.target_field = "" THEN collected_data
    ELSE IF DictHas(collected_data, rule.target_field)
            /\ Truth(DictGet(collected_data, rule.target_field))
    THEN collected_data
    ELSE Mapped(FirstPattern(rule.field_patterns))

_apply_status_rule(rule, user_input, collected_data) ==
    IF rule.field = "" \/ rule.operator = "" \/ rule.action_field = "" \/ rule.value = <<>>
    THEN collected_data
    ELSE IF /\ rule.operator = "has_value"
            /\ DictHas(collected_data, rule.field)
            /\ Truth(DictGet(collected_data, rule.field))
    THEN DictSet(collected_data, rule.action_field, rule.value)
    ELSE collected_data

_apply_single_rule(rule, user_input, collected_data) ==
    IF rule.id = "carrier_id_mapping_rule"
    THEN _apply_field_mapping_rule(rule, user_input, collected_data)
    ELSE IF rule.id = "carrier_creditor_status_rule"
    THEN _apply_status_rule(rule, user_input, collected_data)
    ELSE collected_data

\* the rules in the order they are declared, unsorted
fold_declared_rules(rules, transport_type, user_input, collected_data) ==
    LET RECURSIVE ApplyRules(_, _)
        ApplyRules(rest, result) ==
            IF rest = <<>> THEN result
            ELSE ApplyRules(Tail(rest),
                     IF transport_type \in Head(rest).applies_to
                     THEN _apply_single_rule(Head(rest), user_input, result)
                     ELSE result) IN
    ApplyRules(rules, collected_data)

\* the body of apply_business_rules, for the rules the store holds
fold_business_rules(rules, transport_type, user_input, collected_data) ==
    LET \* sorted(business_rules, key=priority): stable, ascending
        sorted_rules == SortSeq(rules, LAMBDA a, b : a.priority < b.priority)
        RECURSIVE ApplyRules(_, _)
        ApplyRules(rest, result) ==
            IF rest = <<>> THEN result
            ELSE ApplyRules(Tail(rest),
                     IF transport_type \in Head(rest).applies_to
                     THEN _apply_single_rule(Head(rest), user_input, result)
                     ELSE result) IN
    ApplyRules(sorted_rules, collected_data)

apply_business_rules(transport_type, user_input, collected_data) ==
    fold_business_rules(business_rules, transport_type, user_input, collected_data)

(***************************************************************************)
(* ParameterCollector.  An operation that can raise returns [err, val]:    *)
(* err is the message of the ValueError, "" when none was raised.          *)
(***************************************************************************)
Ok(val) == [err |-> "", val |-> val]

Err(msg) == [err |-> msg, val |-> <<>>]

collect_basic_transport_info(transport_type, user_input) ==
    LET get_fixed_parameters ==
            IF transport_type = "ocean_visibility" THEN OceanFixedValues ELSE <<>>
        RECURSIVE CollectRequired(_, _)
        CollectRequired(fields, result) ==
            IF fields = <<>> THEN Ok(result)
            ELSE IF Has(user_input, Head(fields).name)
            THEN CollectRequired(Tail(fields),
                     DictSet(result, Head(fields).name, user_input[Head(fields).name]))
            ELSE IF Head(fields).has_default
            THEN CollectRequired(Tail(fields),
                     DictSet(result, Head(fields).name, Head(fields).default))
            ELSE Err("Required field not provided")
        RECURSIVE CollectOptional(_, _)
        CollectOptional(fields, result) ==
            IF fields = <<>> THEN result
            ELSE CollectOptional(Tail(fields),
                     IF Has(user_input, Head(fields).name)
                     THEN DictSet(result, Head(fields).name,
                                  user_input[Head(fields).name])
                     ELSE IF Head(fields).has_default
                     THEN DictSet(result, Head(fields).name, Head(fields).default)
                     ELSE result)
        Required(transport_params, required) ==
            IF required.err # "" THEN required
            ELSE Ok(apply_business_rules(transport_type, user_input,
                        CollectOptional(transport_params.optional_fields, required.val)))
        Collect(transport_params) ==
            Required(transport_params,
                     CollectRequired(transport_params.required_fields,
                                     DictUpdate(<<>>, get_fixed_parameters))) IN
    Collect(get_transport_parameters(transport_type))

collect_order_details(transport_type, user_input) ==
    LET RECURSIVE CollectRequired(_, _)
        CollectRequired(fields, result) ==
            IF fields = <<>> THEN Ok(result)
            ELSE IF Has(user_input, Head(fields).name)
            THEN CollectRequired(Tail(fields),
                     DictSet(result, Head(fields).name, user_input[Head(fields).name]))
            ELSE Err("Required order field not provided")
        RECURSIVE CollectOptional(_, _)
        CollectOptional(fields, result) ==
            IF fields = <<>> THEN result
            ELSE CollectOptional(Tail(fields),
                     IF Has(user_input, Head(fields).name)
                     THEN DictSet(result, Head(fields).name,
                                  user_input[Head(fields).name])
                     ELSE result)
        Required(order_params, required) ==
            IF required.err # "" THEN required
            ELSE Ok(CollectOptional(order_params.optional_fields, required.val))
        Collect(order_params) ==
            Required(order_params, CollectRequired(order_params.required_fields, <<>>)) IN
    Collect(get_order_parameters(transport_type))

_process_location(location_data) ==
    LET required_fields == {"company_name", "city", "country"}
        \* the keys of the location among names that carry a true value
        Kept(names) ==
            [k \in {n \in names : Has(location_data, n) /\ Truth(location_data[n])} |->
                location_data[k]]
        Processed(processed) ==
            IF ~IsCountryCode(processed.country)
            THEN Err("Country code must be 2 uppercase letters")
            ELSE Ok(processed) IN
    IF \E f \in required_fields : ~Has(location_data, f) \/ ~Truth(location_data[f])
    THEN Err("Required location field is missing")
    ELSE Processed(Kept(required_fields \cup {"street", "zip", "state", "comment"}))

_process_date_time_period(period_data) ==
    LET _validate_iso_datetime(datetime_str) == IsIsoDateTime(datetime_str) IN
    IF ~Has(period_data, "start") THEN Err("Required date field is missing")
    ELSE IF ~_validate_iso_datetime(period_data.start)
    THEN Err("Invalid datetime format")
    ELSE IF ~Has(period_data, "end") THEN Err("Required date field is missing")
    ELSE IF ~_validate_iso_datetime(period_data.end)
    THEN Err("Invalid datetime format")
    ELSE Ok([k \in DOMAIN period_data \cap {"start", "end", "timezone"} |-> period_data[k]])

EmptyDict == [k \in {} |-> <<>>]

collect_stops(user_input) ==
    LET \* f"stop_{i+1}"
        SyntheticIds == <<"stop_1", "stop_2", "stop_3", "stop_4">>
        RECURSIVE CollectStops(_, _, _)
        Stop(stops, i, processed_stops, location, period) ==
            IF location.err # "" THEN location
            ELSE IF period.err # "" THEN period
            ELSE CollectStops(stops, i + 1,
                     Append(processed_stops,
                            [id |-> GetOr(stops[i], "id", <<SyntheticIds[i]>>),
                             index |-> GetOr(stops[i], "index", Int_(i - 1)),
                             location |-> location.val,
                             date_time_period |-> period.val]))
        CollectStops(stops, i, processed_stops) ==
            IF i > Len(stops) THEN Ok(processed_stops)
            ELSE Stop(stops, i, processed_stops,
                      _process_location(GetOr(stops[i], "location", EmptyDict)),
                      _process_date_time_period(
                          GetOr(stops[i], "date_time_period", EmptyDict))) IN
    CollectStops(GetOr(user_input, "stops", <<>>), 1, <<>>)

collect_custom_parameters(user_input) ==
    LET \* a parameter of the caller, its optional attributes kept when supplied
        ProcessedParam(param) ==
            [k \in {"qualifier", "value"}
                   \cup (DOMAIN param \cap {"shipper_visibility", "export_to_carrier"}) |->
                IF k = "value" THEN GetOr(param, "value", <<>>) ELSE param[k]]
        Processed(qualified) ==
            [i \in 1..Len(qualified) |-> ProcessedParam(qualified[i])] IN
    Processed(SelectSeq(GetOr(user_input, "parameters", <<>>),
                        LAMBDA param : Truth(GetOr(param, "qualifier", <<>>))))

(***************************************************************************)
(* ParameterCollector.generate_missing_field_prompts and                   *)
(* suggest_optional_fields: a prompt is modelled by the name of its field. *)
(***************************************************************************)
\* no required field is looked for
no_missing_field_prompts(transport_type, provided_data) == <<>>

generate_missing_field_prompts(transport_type, provided_data) ==
    LET Names(missing) == [i \in 1..Len(missing) |-> missing[i].name]
        MissingNames(fields) ==
            Names(SelectSeq(fields, LAMBDA field : ~Has(provided_data, field.name))) IN
    MissingNames(get_transport_parameters(transport_type).required_fields)
    \o MissingNames(get_order_parameters(transport_type).required_fields)
    \o (IF transport_type = "ocean_visibility"
        THEN MissingNames(SelectSeq(OceanParameters, LAMBDA param : param.required))
        ELSE <<>>)

suggest_optional_fields(transport_type) ==
    LET Names(fields) == [i \in 1..Len(fields) |-> fields[i].name] IN
    Names(get_transport_parameters(transport_type).optional_fields)

(***************************************************************************)
(* BaseGenerator: assembly of the text.                                    *)
(***************************************************************************)
_build_single_stop_xml(stop_data) ==
    LET location == stop_data.location
        period == stop_data.date_time_period
        OptionalLine(d, key) ==
            IF Has(d, key) /\ Truth(d[key]) THEN Line(El(key, d[key])) ELSE <<>> IN
    Line(Open("stop"))
    \o Line(El("id", stop_data.id))
    \o Line(El("index", NumStr(stop_data.index)))
    \o Line(Open("location"))
    \o Line(El("company_name", location.company_name))
    \o OptionalLine(location, "street")
    \o OptionalLine(location, "zip")
    \o Line(El("city", location.city))
    \o OptionalLine(location, "state")
    \o Line(El("country", location.country))
    \o OptionalLine(location, "comment")
    \o Line(Close("location"))
    \o Line(Open("date_time_period"))
    \o Line(El("start", period.start))
    \o Line(El("end", period.end))
    \o OptionalLine(period, "timezone")
    \o Line(Close("date_time_period"))
    \o Line(Close("stop"))

_build_stops_replacements(stops) ==
    << <<"stops", Concat([i \in 1..Len(stops) |-> _build_single_stop_xml(stops[i])])>> >>

_build_stop_ids_xml(stop_ids, tag_name) ==
    Concat([i \in 1..Len(stop_ids) |-> Line(El(tag_name, stop_ids[i]))])

_build_parameters_xml(parameters) ==
    LET ParameterXml(param) ==
            Line(OpenWith("parameter",
                     Attr("qualifier", param.qualifier)
                     \o (IF /\ Has(param, "shipper_visibility")
                            /\ Truth(param.shipper_visibility)
                         THEN Attr("shipperVisibility", param.shipper_visibility)
                         ELSE <<>>)
                     \o (IF /\ Has(param, "export_to_carrier")
                            /\ Truth(param.export_to_carrier)
                         THEN Attr("exportToCarrier", param.export_to_carrier)
                         ELSE <<>>)))
            \o (IF Truth(param.value) THEN Line(El("value", param.value)) ELSE <<>>)
            \o Line(Close("parameter")) IN
    IF parameters = <<>> THEN <<>>
    ELSE Line(Open("parameters"))
         \o Concat([i \in 1..Len(parameters) |-> ParameterXml(parameters[i])])
         \o Line(Close("parameters"))

build_basic_structure(collected_params, transport_type, layout) ==
    LET transport_info == collected_params.transport_info
        order_details == collected_params.order_details
        \* str(value) of the value held under key
        Str(key, value) ==
            IF key \in {"price_reference", "weight_value", "volume_value",
                        "distance_value"}
            THEN NumStr(value) ELSE value
        \* the transport_info fields that are not yet among the replacements
        RECURSIVE OtherFields(_, _)
        OtherFields(info, replacements) ==
            IF info = <<>> THEN replacements
            ELSE OtherFields(Tail(info),
                     IF DictHas(replacements, Head(info)[1]) THEN replacements
                     ELSE Append(replacements,
                                 <<Head(info)[1], Str(Head(info)[1], Head(info)[2])>>))
        Basic(number) ==
            << <<"transport_number", number>>,
               <<"status", DictGetOr(transport_info, "status", <<"N">>)>>,
               <<"scheduling_unit", DictGetOr(transport_info, "scheduling_unit", <<>>)>>,
               <<"order_number", DictGetOr(order_details, "order_number", number)>> >>
        Carrier(basic) ==
            IF DictHas(transport_info, "carrier_creditor_number")
            THEN DictSet(basic, "carrier_creditor_number",
                         DictGet(transport_info, "carrier_creditor_number"))
            ELSE basic
        StopIds(replacements, name, tag_name) ==
            DictSet(replacements, name,
                    _build_stop_ids_xml(DictGetOr(order_details, name, <<>>), tag_name))
    IN
    replace_placeholders(
        load_template(transport_type, layout),
        StopIds(StopIds(DictUpdate(OtherFields(transport_info,
                                       Carrier(Basic(DictGetOr(transport_info, "number",
                                                               <<>>)))),
                                   _build_stops_replacements(collected_params.stops)),
                        "loading_stop_ids", "loading_stop_id"),
                "unloading_stop_ids", "unloading_stop_id"))

\* the cleanup alone, the text returned unparsed
finalize_unchecked(xml_content) ==
    [err |-> "", val |-> remove_empty_placeholders(xml_content)]

finalize_xml(xml_content) ==
    LET \* XMLDOMBuilder.validate_xml_structure: the text is well-formed
        is_well_formed(xml_string) == fromstring(xml_string).ok
        Checked(cleaned) ==
            IF ~is_well_formed(cleaned) THEN Err("Generated XML is not well-formed")
            ELSE Ok(cleaned) IN
    Checked(remove_empty_placeholders(xml_content))

\* BaseGenerator.collect_all_parameters
base_collect_all_parameters(transport_type, user_input) ==
    LET Collected(transport_info, order_details, stops) ==
            IF transport_info.err # "" THEN transport_info
            ELSE IF order_details.err # "" THEN order_details
            ELSE IF stops.err # "" THEN stops
            ELSE Ok([transport_info |-> transport_info.val,
                     order_details |-> order_details.val,
                     stops |-> stops.val,
                     custom_parameters |-> collect_custom_parameters(user_input)]) IN
    Collected(collect_basic_transport_info(transport_type, user_input),
              collect_order_details(transport_type, user_input),
              collect_stops(user_input))

(***************************************************************************)
(* BaseGenerator.validate_input and the _perform_specific_validation of    *)
(* the variants.                                                           *)
(***************************************************************************)
\* the loop over the caller's parameters that the road variants share
\* no qualifier is refused
AllowedParams(parameters, msg, validation_result) == validation_result

ForbiddenParams(parameters, msg, validation_result) ==
    LET forbidden_ocean_params ==
            <<"ocean.scac.no", "ocean.bl.no", "ocean.container.no",
              "visibility.ocean.product">>
        IsForbidden(param) ==
            \E i \in 1..Len(forbidden_ocean_params) :
                GetOr(param, "qualifier", <<>>) = <<forbidden_ocean_params[i]>>
        RECURSIVE Params(_, _)
        Params(params, r) ==
            IF params = <<>> THEN r
            ELSE Params(Tail(params),
                        \* param.get of a str
                        IF IsStr(Head(params)) THEN Propagate(r, "AttributeError")
                        ELSE IF IsForbidden(Head(params))
                        THEN AddError(r, msg, Head(params).qualifier)
                        ELSE r) IN
    Params(parameters, validation_result)

(***************************************************************************)
(* SimpleRoadGenerator.                                                    *)
(***************************************************************************)
simple_road_perform_specific_validation(user_input, validation_result) ==
    LET Stops(stops, r) ==
            IF Len(stops) < 2
            THEN AddError(r,
                   "Simple road freight requires at least 2 stops (loading and unloading)",
                   <<>>)
            ELSE IF Len(stops) > 10
            THEN AddWarning(r, "More than 10 stops is unusual for simple road freight",
                            <<>>)
            ELSE r
        \* str <= int and str < int raise TypeError
        Price(r) ==
            IF Has(user_input, "price_reference")
               /\ ~IsNumber(user_input.price_reference)
            THEN Propagate(r, "TypeError")
            ELSE IF Has(user_input, "price_reference")
                    /\ user_input.price_reference.n <= 0
            THEN AddError(r, "Price reference must be positive", <<>>)
            ELSE r
        Weight(r) ==
            IF Has(user_input, "weight_value") /\ ~IsNumber(user_input.weight_value)
            THEN Propagate(r, "TypeError")
            ELSE IF Has(user_input, "weight_value") /\ user_input.weight_value.n < 0
            THEN AddError(r, "Weight value cannot be negative", <<>>)
            ELSE r IN
    Weight(Price(ForbiddenParams(GetOr(user_input, "parameters", <<>>),
                     "Ocean parameter not allowed in simple road freight",
                     Stops(GetOr(user_input, "stops", <<>>), validation_result))))

_has_pricing(collected_params) == DictHas(collected_params.transport_info, "price_reference")

_has_vehicle(collected_params) == DictHas(collected_params.transport_info, "vehicle")

_build_pricing_xml(transport_info) ==
    Open("prices")
    \o Line(El("reference", NumStr(DictGetOr(transport_info, "price_reference", Int_(0)))))
    \o Line(El("currency", DictGetOr(transport_info, "price_currency", <<"EUR">>)))
    \o Line(El("mode", DictGetOr(transport_info, "price_mode", <<"DEFAULT">>)))
    \o Line(Close("prices"))

_add_simple_road_elements(xml_content, collected_params) ==
    LET transport_info == collected_params.transport_info
        order_details == collected_params.order_details
        \* .replace("&", "&amp;").replace("<", "&lt;").replace(">", "&gt;")
        Escape(text) ==
            StrReplace(StrReplace(StrReplace(text, <<"&">>, <<"&", "amp;">>),
                                  <<"<">>, <<"&", "lt;">>),
                       <<">">>, <<"&", "gt;">>)
        Quantity(name, unit, value) ==
            Line(OpenWith(name, Attr("unit", <<unit>>)))
            \o Line(El("value", NumStr(value)))
            \o Line(Close(name))
        replacements ==
          << <<"vehicle_element",
               IF DictHas(transport_info, "vehicle")
               THEN El("vehicle", DictGet(transport_info, "vehicle")) ELSE <<>> >>,
             <<"prices_element",
               IF _has_pricing(collected_params)
               THEN _build_pricing_xml(transport_info) ELSE <<>> >>,
             <<"weight_element",
               IF DictHas(order_details, "weight_value")
               THEN Quantity("weight", "kg", DictGet(order_details, "weight_value"))
               ELSE <<>> >>,
             <<"loading_meter_element",
               OpenWith("loading_meter", Attr("unit", <<"m">>)) \o Close("loading_meter")>>,
             <<"distance_element",
               IF DictHas(order_details, "distance_value")
               THEN Quantity("distance", "km", DictGet(order_details, "distance_value"))
               ELSE <<>> >>,
             <<"comment_element",
               IF DictHas(order_details, "comment")
               THEN El("comment", Escape(DictGet(order_details, "comment"))) ELSE <<>> >>,
             <<"parameters_element",
               _build_parameters_xml(collected_params.custom_parameters)>> >> IN
    replace_placeholders(xml_content, replacements)

(***************************************************************************)
(* ComplexRoadGenerator.                                                   *)
(***************************************************************************)
RequiredItemFields == <<"number", "short_description", "material_number">>

_validate_order_item(item, index, validation_result) ==
    LET RECURSIVE Required(_, _)
        Required(fields, r) ==
            IF fields = <<>> THEN r
            ELSE Required(Tail(fields),
                     IF ~Has(item, Head(fields)) \/ ~Truth(item[Head(fields)])
                     THEN AddError(r, "Order item: Required field is missing",
                                   NumStr(Int_(index + 1)) \o <<Head(fields)>>)
                     ELSE r)
        RECURSIVE QuantityQualifiers(_, _)
        QuantityQualifiers(quantities, r) ==
            IF quantities = <<>> THEN r
            ELSE QuantityQualifiers(Tail(quantities),
                     IF ~Truth(GetOr(Head(quantities), "qualifier", <<>>))
                     THEN AddError(r, "Order item: Quantity qualifier is required",
                                   NumStr(Int_(index + 1)))
                     ELSE r)
        Quantities(quantities, r) ==
            IF quantities = <<>>
            THEN AddWarning(r, "Order item: No quantities specified",
                            NumStr(Int_(index + 1)))
            ELSE QuantityQualifiers(quantities, r)
        RECURSIVE Recommended(_, _, _)
        Recommended(existing_qualifiers, required, r) ==
            IF required = <<>> THEN r
            ELSE Recommended(existing_qualifiers, Tail(required),
                     IF <<Head(required)>> \notin existing_qualifiers
                     THEN AddWarning(r, "Order item: Recommended parameter is missing",
                                     NumStr(Int_(index + 1)) \o <<Head(required)>>)
                     ELSE r)
        Existing(item_params) ==
            {GetOr(item_params[i], "qualifier", <<>>) : i \in 1..Len(item_params)} IN
    Recommended(Existing(GetOr(item, "parameters", <<>>)),
                <<"material", "plantCode", "unitOfMeasurement">>,
                Quantities(GetOr(item, "quantities", <<>>),
                           Required(RequiredItemFields, validation_result)))

complex_road_perform_specific_validation(user_input, validation_result) ==
    LET Stops(stops, r) ==
            IF Len(stops) < 2
            THEN AddError(r, "Complex road freight requires at least 2 stops", <<>>)
            ELSE IF Len(stops) > 20
            THEN AddError(r, "Complex road freight supports maximum 20 stops", <<>>)
            ELSE r
        \* str.isdigit on the words of the model
        IsDigitText(text) ==
            /\ text # <<>>
            /\ \A i \in 1..Len(text) :
                   text[i] \in {"0", "1", "2", "0081310198", "0000203512", "0000999999",
                                "12345", "1404338"}
        Carrier(carrier_creditor, r) ==
            IF /\ Truth(carrier_creditor)
               /\ ~IsDigitText(carrier_creditor)
               /\ CharLen(carrier_creditor) # 10
            THEN AddError(r, "Carrier creditor number must be 10 digits", <<>>)
            ELSE r
        RECURSIVE OrderItems(_, _, _)
        OrderItems(order_items, i, r) ==
            IF i > Len(order_items) THEN r
            ELSE OrderItems(order_items, i + 1,
                            _validate_order_item(order_items[i], i - 1, r))
        RECURSIVE Consistency(_, _)
        Consistency(order_params, r) ==
            IF order_params = <<>> THEN r
            ELSE Consistency(Tail(order_params),
                     IF IsStr(Head(order_params)) THEN Propagate(r, "AttributeError")
                     ELSE IF /\ GetOr(Head(order_params), "qualifier", <<>>)
                                  = <<"custom.preassignedCarrierCreditorNumber">>
                             /\ \/ Has(Head(order_params), "value")
                                     # Has(user_input, "carrier_creditor_number")
                                \/ /\ Has(Head(order_params), "value")
                                   /\ Has(user_input, "carrier_creditor_number")
                                   /\ Head(order_params).value
                                         # user_input.carrier_creditor_number
                     THEN AddWarning(r,
                            "Carrier creditor number inconsistency between transport and order levels",
                            <<>>)
                     ELSE r) IN
    Consistency(GetOr(user_input, "parameters", <<>>),
        OrderItems(GetOr(user_input, "order_items", <<>>), 1,
            ForbiddenParams(GetOr(user_input, "parameters", <<>>),
                "Ocean parameter not allowed in complex road freight",
                Carrier(GetOr(user_input, "carrier_creditor_number", <<>>),
                        Stops(GetOr(user_input, "stops", <<>>), validation_result)))))

collect_order_items(user_input) ==
    LET _process_quantities(quantities) ==
            [i \in 1..Len(quantities) |->
                [qualifier |-> GetOr(quantities[i], "qualifier", <<>>),
                 value |-> GetOr(quantities[i], "value", Float(0)),
                 unit |-> GetOr(quantities[i], "unit", <<>>)]]
        _process_item_parameters(parameters) ==
            [i \in 1..Len(parameters) |->
                [k \in {"qualifier", "value"}
                       \cup (DOMAIN parameters[i]
                                 \cap {"shipper_visibility", "export_to_carrier"}) |->
                    IF k \in DOMAIN parameters[i] THEN parameters[i][k] ELSE <<>>]]
        Processed(item_data) ==
            [number |-> GetOr(item_data, "number", <<>>),
             short_description |-> GetOr(item_data, "short_description", <<>>),
             material_number |-> GetOr(item_data, "material_number", <<>>),
             quantities |-> _process_quantities(GetOr(item_data, "quantities", <<>>)),
             parameters |-> _process_item_parameters(
                                GetOr(item_data, "parameters", <<>>))]
        RECURSIVE Items(_, _)
        Item(items, processed_items, processed_item) ==
            IF \E i \in 1..Len(RequiredItemFields) :
                   ~Truth(processed_item[RequiredItemFields[i]])
            THEN Err("Required item field is missing")
            ELSE Items(Tail(items), Append(processed_items, processed_item))
        Items(items, processed_items) ==
            IF items = <<>> THEN Ok(processed_items)
            ELSE Item(items, processed_items, Processed(Head(items))) IN
    Items(GetOr(user_input, "order_items", <<>>), <<>>)

_build_order_items_xml(order_items) ==
    LET QuantityXml(qty) ==
            Line(Open("quantity"))
            \o Line(El("qualifier", qty.qualifier))
            \o Line(El("value", NumStr(qty.value)))
            \o (IF Truth(qty.unit) THEN Line(El("unit", qty.unit)) ELSE <<>>)
            \o Line(Close("quantity"))
        ParameterXml(param) ==
            Line(OpenWith("parameter",
                     Attr("qualifier", param.qualifier)
                     \o (IF /\ Has(param, "shipper_visibility")
                            /\ Truth(param.shipper_visibility)
                         THEN Attr("shipperVisibility", param.shipper_visibility)
                         ELSE <<>>)))
            \o (IF Truth(param.value) THEN Line(El("value", param.value)) ELSE <<>>)
            \o Line(Close("parameter"))
        OrderItemXml(item) ==
            Line(Open("order_item"))
            \o Line(El("number", item.number))
            \o Line(El("short_description", item.short_description))
            \o Line(El("material_number", item.material_number))
            \o (IF item.quantities = <<>> THEN <<>>
                ELSE Line(Open("quantities"))
                     \o Concat([i \in 1..Len(item.quantities) |->
                                   QuantityXml(item.quantities[i])])
                     \o Line(Close("quantities")))
            \o (IF item.parameters = <<>> THEN <<>>
                ELSE Line(Open("parameters"))
                     \o Concat([i \in 1..Len(item.parameters) |->
                                   ParameterXml(item.parameters[i])])
                     \o Line(Close("parameters")))
            \o Line(Close("order_item")) IN
    Line(Open("order_items"))
    \o Concat([i \in 1..Len(order_items) |-> OrderItemXml(order_items[i])])
    \o Line(Close("order_items"))

order_level_qualifiers ==
    {"custom.preassignedCarrierCreditorNumber", "salesorderNumber", "shuttleTransport",
     "shuttleTransportAuto", "CPUrecipient", "CSRName", "CSREmail", "CSRPhone",
     "OrderDate", "transportMode", "shippingPoint", "ShipTo", "material", "route",
     "purchaseOrderNumber", "PGIDate"}

transport_level_qualifiers ==
    {"numberofCombinedDeliveries", "combinedloadnumber", "transport.salesorderNumber",
     "transport.purchaseOrderNumber", "transport.customerPONumber",
     "custom.resend.carrierprint", "transport.shipperBillTo"}

_add_complex_road_elements(xml_content, collected_params) ==
    LET transport_info == collected_params.transport_info
        order_details == collected_params.order_details
        QualifierIn(param, qualifiers) ==
            Len(param.qualifier) = 1 /\ param.qualifier[1] \in qualifiers
        _extract_order_parameters(all_parameters) ==
            SelectSeq(all_parameters,
                      LAMBDA param : QualifierIn(param, order_level_qualifiers))
        _extract_transport_parameters(all_parameters) ==
            SelectSeq(all_parameters,
                      LAMBDA param : QualifierIn(param, transport_level_qualifiers))
        PlainQuantity(name, value) ==
            Line(Open(name)) \o Line(El("value", NumStr(value))) \o Line(Close(name))
        replacements ==
          << <<"weight_element",
               PlainQuantity("weight", DictGetOr(transport_info, "weight_value", Float(0)))>>,
             <<"volume_element",
               PlainQuantity("volume", DictGetOr(transport_info, "volume_value", Float(0)))>>,
             <<"incoterms_element",
               IF DictHas(order_details, "incoterms")
               THEN El("incoterms", DictGet(order_details, "incoterms")) ELSE <<>> >>,
             <<"order_items_element",
               IF collected_params.order_items # <<>>
               THEN _build_order_items_xml(collected_params.order_items) ELSE <<>> >>,
             <<"order_parameters_element",
               _build_parameters_xml(
                   _extract_order_parameters(collected_params.custom_parameters))>>,
             <<"transport_parameters_element",
               _build_parameters_xml(
                   _extract_transport_parameters(collected_params.custom_parameters))>> >> IN
    replace_placeholders(xml_content, replacements)

(***************************************************************************)
(* OceanVisibilityGenerator.                                               *)
(***************************************************************************)
\* no check of the variant
ocean_visibility_skip_specific_validation(user_input, validation_result) ==
    validation_result

ocean_visibility_perform_specific_validation(user_input, validation_result) ==
    LET required_ocean_parameters == <<"ocean.scac.no", "ocean.bl.no", "ocean.container.no">>
        has_location_data == Has(user_input, "departure_location")
                             /\ Has(user_input, "arrival_location")
        Stops(stops, r) ==
            IF Len(stops) = 0 /\ ~has_location_data
            THEN AddError(r,
                   "Ocean visibility requires either 2 stops OR departure_location and arrival_location data",
                   <<>>)
            ELSE IF Len(stops) > 0 /\ Len(stops) # 2
            THEN AddError(r,
                   "Ocean visibility requires exactly 2 stops (Departure and Arrival)",
                   <<>>)
            ELSE r
        RECURSIVE Missing(_, _)
        Missing(names, r) ==
            IF names = <<>> THEN r
            ELSE Missing(Tail(names),
                     IF ~Has(user_input, Head(names))
                     THEN AddError(r, "Required ocean parameter is missing",
                                   <<Head(names)>>)
                     ELSE r)
        \* scac_code.replace(digit, "A").isalpha() on the SCAC words of the model
        AlphaAfterDigits(scac_code) ==
            Len(scac_code) = 1 /\ scac_code[1] \in {"MAEU", "MSCU", "AB12", "maeu", "MAE1X"}
        Scac(scac_code, r) ==
            IF Truth(scac_code) /\ CharLen(scac_code) # 4
            THEN AddError(r, "SCAC code must be exactly 4 characters", <<>>)
            ELSE IF /\ Truth(scac_code)
                    /\ ~AlphaAfterDigits(scac_code)
                    /\ ~IsScac(scac_code)
            THEN AddError(r, "SCAC code must contain only uppercase letters and numbers",
                          <<>>)
            ELSE r
        RECURSIVE Forbidden(_, _)
        Forbidden(elements, r) ==
            IF elements = <<>> THEN r
            ELSE Forbidden(Tail(elements),
                     IF Has(user_input, Head(elements))
                     THEN AddWarning(r, "is not used in ocean visibility transport orders",
                                     <<Head(elements)>>)
                     ELSE r)
        \* qualifier.startswith("ocean.") or it is the visibility product
        IsOcean(qualifier) ==
            /\ Len(qualifier) = 1
            /\ qualifier[1] \in {"ocean.scac.no", "ocean.bl.no", "ocean.container.no",
                                  "ocean.booking.no", "visibility.ocean.product"}
        RECURSIVE Params(_, _)
        Params(parameters, r) ==
            IF parameters = <<>> THEN r
            ELSE Params(Tail(parameters),
                     IF IsStr(Head(parameters)) THEN Propagate(r, "AttributeError")
                     ELSE IF ~IsOcean(GetOr(Head(parameters), "qualifier", <<>>))
                     THEN AddWarning(r,
                            "Parameter is not typically used in ocean visibility orders",
                            GetOr(Head(parameters), "qualifier", <<>>))
                     ELSE r) IN
    Params(GetOr(user_input, "parameters", <<>>),
        Forbidden(<<"vehicle", "prices", "order_items">>,
            Scac(GetOr(user_input, "ocean.scac.no", <<>>),
                Missing(required_ocean_parameters,
                    Stops(GetOr(user_input, "stops", <<>>), validation_result)))))

fixed_values ==
    [scheduling_unit |-> <<"Ocean Visibility">>,
     carrier_creditor_number |-> <<"Ocean">>,
     status |-> <<"NTO">>]

\* OceanVisibilityGenerator.collect_all_parameters
ocean_collect_all_parameters(user_input) ==
    LET _build_ocean_stops(input) ==
            << [id |-> <<"Departure">>, index |-> Int_(0),
                location |-> GetOr(input, "departure_location", EmptyDict),
                date_time_period |-> GetOr(input, "departure_date", EmptyDict)],
               [id |-> <<"Arrival">>, index |-> Int_(1),
                location |-> GetOr(input, "arrival_location", EmptyDict),
                date_time_period |-> GetOr(input, "arrival_date", EmptyDict)] >>
        Numbered(fixed) ==
            IF Has(fixed, "order_number") THEN fixed
            ELSE ("order_number" :> GetOr(fixed, "number", <<>>)) @@ fixed
        Stopped(numbered) ==
            IF /\ (~Has(numbered, "stops") \/ Len(numbered.stops) # 2)
               /\ Has(numbered, "departure_location")
               /\ Has(numbered, "arrival_location")
            THEN ("stops" :> _build_ocean_stops(numbered)) @@ numbered
            ELSE numbered
        Modified(stopped) ==
            ("loading_stop_ids" :> << <<"Departure">> >>)
            @@ ("unloading_stop_ids" :> << <<"Arrival">> >>)
            @@ stopped IN
    base_collect_all_parameters("ocean_visibility",
        Modified(Stopped(Numbered(fixed_values @@ user_input))))

collect_ocean_parameters(user_input) ==
    LET RECURSIVE Collect(_, _)
        Collect(params, result) ==
            IF params = <<>> THEN Ok(result)
            ELSE IF Head(params).required /\ ~Has(user_input, Head(params).name)
            THEN Err("Required ocean parameter not provided")
            ELSE IF Has(user_input, Head(params).name)
            THEN IF /\ Head(params).name = "ocean.scac.no"
                    /\ ~IsScac(user_input[Head(params).name])
                 THEN Err("SCAC code must be 4 alphanumeric characters")
                 ELSE Collect(Tail(params),
                              DictSet(result, Head(params).name,
                                      user_input[Head(params).name]))
            ELSE IF Head(params).name = "ocean.booking.no"
            THEN Collect(Tail(params), DictSet(result, Head(params).name, <<>>))
            ELSE Collect(Tail(params), result) IN
    Collect(OceanParameters, <<>>)

_add_ocean_visibility_elements(xml_content, collected_params) ==
    LET ocean_params == collected_params.ocean_parameters
        stops == collected_params.stops
        StopReplacements(stop, names) ==
            << <<names.company_name, GetOr(stop.location, "company_name", <<>>)>>,
               <<names.street, GetOr(stop.location, "street", <<>>)>>,
               <<names.zip, GetOr(stop.location, "zip", <<>>)>>,
               <<names.city, GetOr(stop.location, "city", <<>>)>>,
               <<names.country, GetOr(stop.location, "country", <<>>)>>,
               <<names.start, GetOr(stop.date_time_period, "start", <<>>)>>,
               <<names.end, GetOr(stop.date_time_period, "end", <<>>)>> >>
        replacements ==
          (IF Len(stops) >= 2
           THEN StopReplacements(stops[1], DepartureNames)
                \o StopReplacements(stops[2], ArrivalNames)
           ELSE <<>>)
          \o << <<"scac_code", DictGetOr(ocean_params, "ocean.scac.no", <<>>)>>,
                <<"bl_number", DictGetOr(ocean_params, "ocean.bl.no", <<>>)>>,
                <<"container_number", DictGetOr(ocean_params, "ocean.container.no", <<>>)>>,
                <<"booking_number", DictGetOr(ocean_params, "ocean.booking.no", <<>>)>> >> IN
    replace_placeholders(xml_content, replacements)

(***************************************************************************)
(* generate_xml of the three variants.  The value is [result, steps]:      *)
(* result is the record returned to the caller, steps the operations of    *)
(* the pipeline that ran, in order.                                        *)
(***************************************************************************)
_perform_specific_validation(transport_type, user_input, validation_result) ==
    CASE transport_type = "simple_road" ->
           simple_road_perform_specific_validation(user_input, validation_result)
      [] transport_type = "complex_road" ->
           complex_road_perform_specific_validation(user_input, validation_result)
      [] OTHER ->
           ocean_visibility_perform_specific_validation(user_input, validation_result)

validate_input(transport_type, user_input) ==
    LET NewValidation(missing_prompts, suggested) ==
            [is_valid |-> missing_prompts = <<>>, errors |-> <<>>, warnings |-> <<>>,
             missing_required |-> missing_prompts, suggested_optional |-> suggested] IN
    _perform_specific_validation(transport_type, user_input,
        NewValidation(generate_missing_field_prompts(transport_type, user_input),
                      suggest_optional_fields(transport_type)))

ValidationFailure(validation) ==
    [result |-> [success |-> FALSE, error_type |-> "validation_error",
                 errors |-> validation.errors,
                 missing_required |-> validation.missing_required,
                 suggested_optional |-> validation.suggested_optional],
     steps |-> <<"validate_input">>]

\* validate_input is called outside the try of generate_xml: what leaves it
\* leaves generate_xml, and no result is returned
Uncaught(validation) ==
    [raised |-> validation.raised, steps |-> <<"validate_input">>]

GenerationFailure(error_message, steps) ==
    [result |-> [success |-> FALSE, error_type |-> "generation_error",
                 error_message |-> error_message],
     steps |-> steps]

Success(final_xml, transport_type, collected_params, metadata, steps) ==
    [result |-> [success |-> TRUE, xml_content |-> final_xml,
                 transport_type |-> transport_type,
                 order_number |-> DictGet(collected_params.transport_info, "number"),
                 metadata |-> metadata],
     steps |-> steps]

simple_road_generate_xml(user_input, layout) ==
    LET collecting == <<"validate_input", "collect_all_parameters">>
        all == collecting \o <<"build_basic_structure", "_add_simple_road_elements",
                               "finalize_xml">>
        Final(collected_params) ==
            finalize_xml(_add_simple_road_elements(
                build_basic_structure(collected_params, "simple_road", layout),
                collected_params))
        Return(validation, collected, final_xml) ==
            IF Escaped(validation) THEN Uncaught(validation)
            ELSE IF ~validation.is_valid THEN ValidationFailure(validation)
            ELSE IF collected.err # "" THEN GenerationFailure(collected.err, collecting)
            ELSE IF final_xml.err # "" THEN GenerationFailure(final_xml.err, all)
            ELSE Success(final_xml.val, "simple_road", collected.val,
                         [has_pricing |-> _has_pricing(collected.val),
                          has_vehicle |-> _has_vehicle(collected.val),
                          stop_count |-> Len(collected.val.stops),
                          parameter_count |-> Len(collected.val.custom_parameters)],
                         all)
        Collected(validation, collected) ==
            Return(validation, collected, Final(collected.val)) IN
    Collected(validate_input("simple_road", user_input),
              base_collect_all_parameters("simple_road", user_input))

complex_road_generate_xml(user_input, layout) ==
    LET collecting == <<"validate_input", "collect_all_parameters">>
        all == collecting \o <<"collect_order_items", "build_basic_structure",
                               "_add_complex_road_elements", "finalize_xml">>
        Final(collected_params) ==
            finalize_xml(_add_complex_road_elements(
                build_basic_structure(collected_params, "complex_road", layout),
                collected_params))
        With(collected, order_items) ==
            [k \in DOMAIN collected.val \cup {"order_items"} |->
                IF k = "order_items" THEN order_items.val ELSE collected.val[k]]
        Return(validation, collected, order_items, collected_params, final_xml) ==
            IF Escaped(validation) THEN Uncaught(validation)
            ELSE IF ~validation.is_valid THEN ValidationFailure(validation)
            ELSE IF collected.err # "" THEN GenerationFailure(collected.err, collecting)
            ELSE IF order_items.err # ""
            THEN GenerationFailure(order_items.err,
                                   Append(collecting, "collect_order_items"))
            ELSE IF final_xml.err # "" THEN GenerationFailure(final_xml.err, all)
            ELSE Success(final_xml.val, "complex_road", collected_params,
                         [has_order_items |-> Len(order_items.val) > 0,
                          order_item_count |-> Len(order_items.val),
                          stop_count |-> Len(collected_params.stops),
                          parameter_count |-> Len(collected_params.custom_parameters)],
                         all)
        Collected(validation, collected, order_items) ==
            Return(validation, collected, order_items, With(collected, order_items),
                   Final(With(collected, order_items))) IN
    Collected(validate_input("complex_road", user_input),
              base_collect_all_parameters("complex_road", user_input),
              collect_order_items(user_input))

ocean_visibility_generate_xml(user_input, layout) ==
    LET collecting == <<"validate_input", "collect_all_parameters">>
        all == collecting \o <<"collect_ocean_parameters", "build_basic_structure",
                               "_add_ocean_visibility_elements", "finalize_xml">>
        Final(collected_params) ==
            finalize_xml(_add_ocean_visibility_elements(
                build_basic_structure(collected_params, "ocean_visibility", layout),
                collected_params))
        With(collected, ocean_parameters) ==
            [k \in DOMAIN collected.val \cup {"ocean_parameters"} |->
                IF k = "ocean_parameters" THEN ocean_parameters.val
                ELSE collected.val[k]]
        Return(validation, collected, ocean_parameters, collected_params, final_xml) ==
            IF Escaped(validation) THEN Uncaught(validation)
            ELSE IF ~validation.is_valid THEN ValidationFailure(validation)
            ELSE IF collected.err # "" THEN GenerationFailure(collected.err, collecting)
            ELSE IF ocean_parameters.err # ""
            THEN GenerationFailure(ocean_parameters.err,
                                   Append(collecting, "collect_ocean_parameters"))
            ELSE IF final_xml.err # "" THEN GenerationFailure(final_xml.err, all)
            ELSE Success(final_xml.val, "ocean_visibility", collected_params,
                         [scac_code |->
                              DictGetOr(ocean_parameters.val, "ocean.scac.no", <<>>),
                          bl_number |->
                              DictGetOr(ocean_parameters.val, "ocean.bl.no", <<>>),
                          container_number |->
                              DictGetOr(ocean_parameters.val, "ocean.container.no", <<>>),
                          booking_number |->
                              DictGetOr(ocean_parameters.val, "ocean.booking.no", <<>>),
                          stop_count |-> Len(collected_params.stops)],
                         all)
        Collected(validation, collected, ocean_parameters) ==
            Return(validation, collected, ocean_parameters,
                   With(collected, ocean_parameters),
                   Final(With(collected, ocean_parameters))) IN
    Collected(validate_input("ocean_visibility", user_input),
              ocean_collect_all_parameters(user_input),
              collect_ocean_parameters(user_input))

\* TransportOrderFactory.create_generator(transport_type).generate_xml(**kwargs)
generate_xml(transport_type, user_input, layout) ==
    CASE transport_type = "simple_road" -> simple_road_generate_xml(user_input, layout)
      [] transport_type = "complex_road" -> complex_road_generate_xml(user_input, layout)
      [] OTHER -> ocean_visibility_generate_xml(user_input, layout)

(***************************************************************************)
(* get_example_input of the three variants.                                *)
(***************************************************************************)
Period(start, end) == [start |-> <<start>>, end |-> <<end>>]

simple_road_get_example_input ==
    [number |-> <<"1404338">>,
     status |-> <<"N">>,
     scheduling_unit |-> <<"Woerth">>,
     vehicle |-> <<"MEGA:Stehend">>,
     price_reference |-> Float(845),
     price_currency |-> <<"EUR">>,
     weight_value |-> Int_(23106),
     distance_value |-> Int_(1153),
     comment |-> <<"rolls in mm : 2800">>,
     loading_stop_ids |-> << <<"1">> >>,
     unloading_stop_ids |-> << <<"2">> >>,
     stops |-> <<
        [id |-> <<"1">>, index |-> Int_(0),
         location |-> [company_name |-> <<"Papierfabrik Palm (PM 6)">>,
                       street |-> <<"Am Oberwald 2">>, zip |-> <<"76744">>,
                       city |-> <<"Woerth">>, country |-> <<"DE">>],
         date_time_period |-> [start |-> <<"2025-09-25T00:00:00+02:00">>,
                               end |-> <<"2025-09-25T23:59:00+02:00">>,
                               timezone |-> <<"Europe/Berlin">>]],
        [id |-> <<"2">>, index |-> Int_(1),
         location |-> [company_name |-> <<"WOK Sp. z o.o.">>,
                       street |-> <<"Podgorna 104">>, zip |-> <<"87300">>,
                       city |-> <<"Brodnica">>, country |-> <<"PL">>,
                       comment |-> <<"ZF: 12:00">>],
         date_time_period |-> [start |-> <<"2025-09-29T00:00:00+02:00">>,
                               end |-> <<"2025-09-29T00:00:00+02:00">>,
                               timezone |-> <<"Europe/Berlin">>]] >>,
     parameters |-> <<
        [qualifier |-> <<"custom.important.info">>,
         value |-> <<"<", "span", " ", "style", "=", "\"",
                     "color: #ff0000; font-size: 10pt;", "\"", ">",
                     "<", "/", "span", ">">>] >>]

ocean_visibility_get_example_input ==
    [number |-> <<"4500831479-20">>,
     departure_location |-> [company_name |-> <<"Camimex Joint Stock Company">>,
                             street |-> <<"Cao Thang Street">>, zip |-> <<>>,
                             city |-> <<"Ca Mau City">>, country |-> <<"VN">>],
     arrival_location |-> [company_name |-> <<"Factory Bremerhaven DE">>,
                           street |-> <<"Am Lunedeich">>, zip |-> <<"27572">>,
                           city |-> <<"Bremerhaven">>, country |-> <<"DE">>],
     departure_date |-> Period("2025-07-13T00:00:00+02:00", "2025-07-13T00:00:00+02:00"),
     arrival_date |-> Period("2025-10-11T00:00:00+02:00", "2025-10-11T00:00:00+02:00")]
    @@ ("ocean.scac.no" :> <<"MAEU">>)
    @@ ("ocean.bl.no" :> <<"MAEU258327258">>)
    @@ ("ocean.container.no" :> <<"MMAU1291440">>)
    @@ ("ocean.booking.no" :> <<>>)

complex_road_get_example_input ==
    [number |-> <<"0081310198">>,
     status |-> <<"D">>,
     scheduling_unit |-> <<"BCO">>,
     carrier_creditor_number |-> <<"0000203512">>,
     weight_value |-> Float(0),
     volume_value |-> Float(0),
     incoterms |-> <<"DAP">>,
     loading_stop_ids |-> << <<"BCOT">> >>,
     unloading_stop_ids |-> << <<"0000017649">> >>,
     stops |-> <<
        [id |-> <<"BCOT">>, index |-> Int_(0),
         location |-> [company_name |-> <<"Bayport CO Truck Terminal">>,
                       street |-> <<"5761 Underwood, BCO">>, zip |-> <<"77507">>,
                       city |-> <<"Pasadena">>, state |-> <<"TX">>,
                       country |-> <<"US">>],
         date_time_period |-> Period("2025-09-25T00:00:00Z", "2025-09-26T23:59:00Z")],
        [id |-> <<"0000017649">>, index |-> Int_(1),
         location |-> [company_name |-> <<"THE SHERWIN WILLIAMS COMPANY">>,
                       street |-> <<"701 SOUTH SHILOH RD DOCK 42">>, zip |-> <<"75042">>,
                       city |-> <<"GARLAND">>, state |-> <<"TX">>, country |-> <<"US">>,
                       comment |-> <<"C/O VALSPAR PACKAGING">>],
         date_time_period |-> Period("2025-09-26T09:00:00Z", "2025-09-26T09:00:00Z")] >>,
     order_items |-> <<
        [number |-> <<"000010">>,
         short_description |-> <<"GLYCOL ETHER EB">>,
         material_number |-> <<"0205LB">>,
         quantities |-> <<
            [qualifier |-> <<"weight">>, value |-> Float(45000), unit |-> <<"LBR">>],
            [qualifier |-> <<"custom.unit.of.measurement">>, value |-> Float(0)] >>,
         parameters |-> <<
            [qualifier |-> <<"technicalDeviation">>, shipper_visibility |-> <<"YES">>],
            [qualifier |-> <<"material">>, value |-> <<"0205LB">>,
             shipper_visibility |-> <<"YES">>],
            [qualifier |-> <<"plantCode">>, value |-> <<"US61">>,
             shipper_visibility |-> <<"YES">>],
            [qualifier |-> <<"customerMaterial">>, value |-> <<"0421598">>],
            [qualifier |-> <<"unitOfMeasurement">>, value |-> <<"LBR">>,
             shipper_visibility |-> <<"YES">>] >>] >>,
     parameters |-> <<
        [qualifier |-> <<"custom.preassignedCarrierCreditorNumber">>,
         value |-> <<"0000203512">>],
        [qualifier |-> <<"transportMode">>, value |-> <<"RO">>,
         shipper_visibility |-> <<"YES">>],
        [qualifier |-> <<"transport.salesorderNumber">>, value |-> <<"0001076772">>,
         shipper_visibility |-> <<"YES">>] >>]

\* TransportOrderFactory.create_generator(transport_type).get_example_input()
get_example_input(transport_type) ==
    CASE transport_type = "simple_road" -> simple_road_get_example_input
      [] transport_type = "complex_road" -> complex_road_get_example_input
      [] OTHER -> ocean_visibility_get_example_input

(***************************************************************************)
(* The inputs a caller gives to generate_xml.  Ids and indices of stops    *)
(* are optional keys; the stop lists below cover defaulted and supplied    *)
(* ids and indices, a repeated id, a reference to no stop, and inputs on   *)
(* which generation fails.                                                 *)
(***************************************************************************)
MaxStops == 3

InputDates == <<"2025-09-25T00:00:00Z", "2025-09-25T09:00:00Z",
               "2025-09-26T09:00:00Z", "2025-09-26T23:59:00Z">>

Inputs(transport_type) ==
    LET PlainStop(i) ==
            [location |-> [company_name |-> <<"Palm">>, city |-> <<"Woerth">>,
                           country |-> <<"DE">>],
             date_time_period |-> Period(InputDates[i], InputDates[i])]
        WithId(stop, id) == stop @@ [id |-> <<id>>]
        WithIndex(stop, index) == stop @@ [index |-> Int_(index)]
        \* n stops that carry neither id nor index
        PlainStops(n) == [i \in 1..n |-> PlainStop(i)]
        StopLists ==
            {PlainStops(n) : n \in 1..MaxStops}
            \cup {<<WithId(PlainStop(1), "A"), WithId(PlainStop(2), "B")>>,
                  <<WithId(PlainStop(1), "stop_2"), PlainStop(2)>>,
                  <<WithId(PlainStop(1), "A"), WithId(PlainStop(2), "A")>>,
                  <<WithIndex(PlainStop(1), 5), WithIndex(PlainStop(2), 7)>>,
                  <<WithIndex(PlainStop(1), 1), WithIndex(PlainStop(2), 0)>>,
                  <<PlainStop(1),
                    [PlainStop(2) EXCEPT !.date_time_period.start = <<"tomorrow">>]>>,
                  <<PlainStop(1),
                    [PlainStop(2) EXCEPT
                        !.location.company_name = <<"Palm ", "<", " Co">>]>>}
        SimpleRoadInput(stops, loading) ==
            [number |-> <<"1404338">>, status |-> <<"N">>,
             scheduling_unit |-> <<"Woerth">>,
             comment |-> <<"rolls ", "{", "L", "}", " ", "&", " more">>,
             loading_stop_ids |-> <<loading>>, unloading_stop_ids |-> << <<"stop_2">> >>,
             stops |-> stops]
        ComplexRoadInput(stops, loading) ==
            [number |-> <<"0081310198">>, status |-> <<"D">>,
             scheduling_unit |-> <<"BCO">>,
             carrier_creditor_number |-> <<"0000203512">>,
             loading_stop_ids |-> <<loading>>, unloading_stop_ids |-> << <<"stop_2">> >>,
             stops |-> stops,
             order_items |-> <<[number |-> <<"000010">>,
                                short_description |-> <<"GLYCOL ETHER EB">>,
                                material_number |-> <<"0205LB">>,
                                quantities |-> <<[qualifier |-> <<"weight">>,
                                                  value |-> Float(45000),
                                                  unit |-> <<"LBR">>]>>]>>]
        \* the keys of input without key k
        Without(input, k) == [x \in (DOMAIN input) \ {k} |-> input[x]]
        \* the input with the given parameters on its order item
        WithItemParameters(input, qualifiers) ==
            [input EXCEPT !.order_items =
                <<Head(@) @@ [parameters |->
                                  [i \in 1..Len(qualifiers) |->
                                      [qualifier |-> <<qualifiers[i]>>,
                                       value |-> <<"0205LB">>]]]>>]
        \* a road input, sound or not, with an ocean qualifier among its
        \* parameters
        WithOceanParameter(inputs) ==
            {input @@ [parameters |-> <<[qualifier |-> <<q>>, value |-> <<"MAEU">>]>>] :
                 input \in inputs,
                 q \in {"ocean.scac.no", "ocean.bl.no", "ocean.container.no",
                        "visibility.ocean.product"}}
        OceanInputs(example) ==
            {example,
             Without(Without(example, "departure_location"), "arrival_location")
                 @@ [stops |-> <<WithId(PlainStop(1), "A"), WithId(PlainStop(2), "B")>>],
             Without(example, "ocean.scac.no"),
             Without(example, "ocean.bl.no"),
             Without(example, "ocean.container.no"),
             Without(example, "number"),
             [example EXCEPT !["ocean.scac.no"] = <<"maeu">>],
             [example EXCEPT !["ocean.scac.no"] = <<"MAE1X">>],
             example @@ [parameters |-> <<Str_(<<"ocean.voyage.no">>)>>]} IN
    CASE transport_type = "simple_road" ->
           {SimpleRoadInput(stops, <<"stop_1">>) : stops \in StopLists}
           \cup {get_example_input(transport_type),
                 SimpleRoadInput(PlainStops(2), <<"X">>),
                 Without(SimpleRoadInput(PlainStops(2), <<"stop_1">>), "number"),
                 Without(SimpleRoadInput(PlainStops(2), <<"stop_1">>), "status"),
                 \* values that are the text of a token of the template
                 [SimpleRoadInput(PlainStops(2), <<"stop_1">>)
                      EXCEPT !.scheduling_unit = Placeholder("stops")],
                 SimpleRoadInput(PlainStops(2), <<"stop_1">>)
                     @@ [vehicle |-> Placeholder("comment_element")],
                 \* a price that is a text, a parameter that is a text
                 SimpleRoadInput(PlainStops(2), <<"stop_1">>)
                     @@ [price_reference |-> Str_(<<"abc">>)],
                 SimpleRoadInput(PlainStops(2), <<"stop_1">>)
                     @@ [parameters |-> <<Str_(<<"deliveryNote">>)>>]}
           \cup WithOceanParameter(
                   {SimpleRoadInput(PlainStops(2), <<"stop_1">>),
                    SimpleRoadInput(PlainStops(1), <<"stop_1">>),
                    Without(SimpleRoadInput(PlainStops(2), <<"stop_1">>), "number")})
      [] transport_type = "complex_road" ->
           {ComplexRoadInput(stops, <<"stop_1">>) : stops \in StopLists}
           \cup {get_example_input(transport_type),
                 ComplexRoadInput(PlainStops(2), <<"X">>),
                 Without(ComplexRoadInput(PlainStops(2), <<"stop_1">>), "number"),
                 Without(ComplexRoadInput(PlainStops(2), <<"stop_1">>), "status"),
                 \* a parameter of the order level, one of the transport level
                 \* and one of neither list
                 ComplexRoadInput(PlainStops(2), <<"stop_1">>)
                     @@ [parameters |->
                            <<[qualifier |-> <<"salesorderNumber">>, value |-> <<"23106">>],
                              [qualifier |-> <<"combinedloadnumber">>, value |-> <<"1153">>],
                              [qualifier |-> <<"deliveryNote">>, value |-> <<"845.0">>]>>],
                 ComplexRoadInput(PlainStops(2), <<"stop_1">>)
                     @@ [parameters |->
                            <<[qualifier |-> <<"salesorderNumber">>, value |-> <<"23106">>],
                              [qualifier |-> <<"combinedloadnumber">>, value |-> <<"1153">>]>>],
                 \* the carrier under the name a mapping rule reads
                 Without(ComplexRoadInput(PlainStops(2), <<"stop_1">>),
                         "carrier_creditor_number")
                     @@ [carrier_id |-> <<"0000203512">>],
                 \* a parameter that is a text
                 ComplexRoadInput(PlainStops(2), <<"stop_1">>)
                     @@ [parameters |-> <<Str_(<<"deliveryNote">>)>>]}
           \cup {[ComplexRoadInput(PlainStops(2), <<"stop_1">>)
                      EXCEPT !.carrier_creditor_number = <<number>>] :
                     number \in {"12345", "00002035AB", "ABC"}}
           \cup {WithItemParameters(ComplexRoadInput(PlainStops(2), <<"stop_1">>), qs) :
                     qs \in {<<"material", "unitOfMeasurement">>,
                             <<"material", "plantCode", "unitOfMeasurement">>}}
           \cup WithOceanParameter(
                   {ComplexRoadInput(PlainStops(2), <<"stop_1">>),
                    ComplexRoadInput(PlainStops(1), <<"stop_1">>),
                    Without(ComplexRoadInput(PlainStops(2), <<"stop_1">>), "number")})
      [] OTHER -> OceanInputs(get_example_input(transport_type))

(***************************************************************************)
(* The documents a caller gives to the validators besides generated ones.  *)
(* A document is written in one of three layouts: "qualified" declares the *)
(* namespace as the default namespace of the root, "bare" declares none,   *)
(* "mixed" binds it to the prefix soap: and writes the prefix on the root  *)
(* and on transport_order only.                                            *)
(***************************************************************************)
ForeignDocuments ==
    LET DocLayouts == {"qualified", "bare", "mixed"}
        DocOpen(layout, name) ==
            IF layout = "mixed" THEN <<"<", "soap:", name, ">">> ELSE Open(name)
        DocClose(layout, name) ==
            IF layout = "mixed" THEN <<"<", "/", "soap:", name, ">">> ELSE Close(name)
        DocRootOpen(layout) ==
            CASE layout = "qualified" ->
                   OpenWith("transport_orders", Attr("xmlns", <<NAMESPACE>>))
              [] layout = "mixed" ->
                   <<"<", "soap:", "transport_orders">>
                   \o Attr("xmlns:soap", <<NAMESPACE>>) \o <<">">>
              [] OTHER -> Open("transport_orders")
        \* a stop of a document: its id, its index and its start
        DocStop(id, index, start) == [id |-> id, index |-> index, start |-> start]
        DocStopXml(stop) ==
            Open("stop")
            \o El("id", <<stop.id>>)
            \o El("index", NumStr(Int_(stop.index)))
            \o Open("location")
            \o El("company_name", <<"Palm">>) \o El("city", <<"Woerth">>)
            \o El("country", <<"DE">>)
            \o Close("location")
            \o Open("date_time_period")
            \o El("start", <<stop.start>>) \o El("end", <<stop.start>>)
            \o Close("date_time_period")
            \o Close("stop")
        \* the optional parts of a document: what follows scheduling_unit,
        \* what order_details holds after its number, what follows orders
        Plain == [unit |-> "Woerth", head |-> <<>>, order |-> <<>>, tail |-> <<>>]
        DocParameters(qualifier, value) ==
            Open("parameters")
            \o OpenWith("parameter", Attr("qualifier", <<qualifier>>))
            \o El("value", <<value>>)
            \o Close("parameter") \o Close("parameters")
        WriteDocument(layout, stops, loading, parts) ==
            DocRootOpen(layout)
            \o DocOpen(layout, "transport_order")
            \o El("number", <<"1404338">>) \o El("status", <<"N">>)
            \o El("scheduling_unit", <<parts.unit>>)
            \o parts.head
            \o Open("orders") \o Open("order_details")
            \o El("number", <<"1404338">>)
            \o parts.order
            \o Open("loading_stop_ids") \o El("loading_stop_id", <<loading>>)
            \o Close("loading_stop_ids")
            \o Open("unloading_stop_ids")
            \o El("unloading_stop_id", <<stops[Len(stops)].id>>)
            \o Close("unloading_stop_ids")
            \o Close("order_details") \o Close("orders")
            \o parts.tail
            \o Open("stops")
            \o Concat([i \in 1..Len(stops) |-> DocStopXml(stops[i])])
            \o Close("stops")
            \o DocClose(layout, "transport_order")
            \o DocClose(layout, "transport_orders")
        DocIds == <<"A", "B", "C", "D">>
        \* stops with the given indices, in document order, at increasing starts
        IndexedStops(indices) ==
            [i \in 1..Len(indices) |-> DocStop(DocIds[i], indices[i], InputDates[i])]
        \* two stops with indices 0 and 1 and the given starts
        DatedStops(first, second) == <<DocStop("A", 0, first), DocStop("B", 1, second)>>
        DocStopLists ==
            {IndexedStops([i \in 1..n |-> i - 1]) : n \in 2..MaxStops}
            \cup {IndexedStops(<<1, 0>>), IndexedStops(<<1, 2>>),
                  IndexedStops(<<0, 1, 3>>), IndexedStops(<<2, 0, 1>>),
                  DatedStops("2025-09-26T09:00:00Z", "2025-09-25T09:00:00Z"),
                  DatedStops("2025-09-25T10:00:00+05:00", "2025-09-25T09:00:00Z"),
                  DatedStops("2025-09-25T08:00:00-05:00", "2025-09-25T09:00:00Z"),
                  DatedStops("2025-09-25T12:00:00-05:00", "2025-09-25T08:00:00-05:00")}
        \* a carrier creditor number of the transport and a preassigned one
        \* among the parameters of the transport or of the order
        Carrier == El("carrier_creditor_number", <<"0000203512">>)
        Preassigned(value) ==
            DocParameters("custom.preassignedCarrierCreditorNumber", value)
        CarrierParts ==
            {[Plain EXCEPT !.head = Carrier, !.tail = Preassigned("0000999999")],
             [Plain EXCEPT !.head = Carrier, !.tail = Preassigned("0000203512")],
             [Plain EXCEPT !.head = Carrier, !.order = Preassigned("0000999999")]}
        \* an ocean visibility document with a SCAC among its parameters
        ScacParts ==
            {[Plain EXCEPT !.unit = "Ocean Visibility",
                           !.tail = DocParameters("ocean.scac.no", scac)] :
                 scac \in {"MAEU", "maeu", "MAE1X"}}
        \* a well-formed text with another root and no transport order
        WrongRoot == Open("orders") \o El("note", <<"x">>) \o Close("orders")
        \* a text that is not well-formed
        Malformed == Open("transport_orders") \o Open("transport_order") IN
    \* the loading id "X" is the id of no stop
    {WriteDocument(l, stops, "A", Plain) : l \in DocLayouts, stops \in DocStopLists}
    \cup {WriteDocument(l, IndexedStops(<<0, 1>>), "X", Plain) : l \in DocLayouts}
    \cup {WriteDocument(l, IndexedStops(<<0, 1>>), "A", parts) :
              l \in DocLayouts, parts \in CarrierParts \cup ScacParts}
    \cup {WrongRoot, Malformed}

(***************************************************************************)
(* The state machine.  The store is loaded at construction and never       *)
(* changes.  Every call is a function of its arguments and the store, so   *)
(* a behaviour is one call of generate_xml, or none, followed by one call  *)
(* of a validator on the generated text or on a caller's document.         *)
(***************************************************************************)
VARIABLES layout, generation, document, validation

vars == <<layout, generation, document, validation>>

Init ==
    /\ layout \in Layouts
    /\ generation = [op |-> "none"]
    /\ document = <<>>
    /\ validation = [op |-> "none"]

GenerateXml ==
    /\ generation.op = "none"
    /\ validation.op = "none"
    /\ \E transport_type \in TransportTypes :
         \E user_input \in Inputs(transport_type) :
           \* a call that returns is recorded with its result, a call that
           \* an exception leaves with the exception and no result
           LET Returned(g) ==
                   IF Escaped(g)
                   THEN [op |-> "generate_xml_raised",
                         transport_type |-> transport_type,
                         user_input |-> user_input, exception |-> g.raised,
                         steps |-> g.steps]
                   ELSE [op |-> "generate_xml", transport_type |-> transport_type,
                         user_input |-> user_input, result |-> g.result,
                         steps |-> g.steps] IN
           generation' = Returned(generate_xml(transport_type, user_input, layout))
    /\ UNCHANGED <<layout, document, validation>>

Generated == generation.op = "generate_xml" /\ generation.result.success

\* the texts the caller hands to a validator
Documents ==
    IF generation.op = "none" THEN ForeignDocuments
    ELSE IF Generated THEN {generation.result.xml_content}
    ELSE {}

\* the transport types the caller names with them
DocumentTypes ==
    IF generation.op = "none" THEN TransportTypes
    ELSE IF Generated THEN {generation.transport_type}
    ELSE {}

\* what the caller gets: the returned dict, or the exception that left
Outcome(op, transport_type, result) ==
    IF result.raised
    THEN [op |-> op, transport_type |-> transport_type, raised |-> TRUE]
    ELSE [op |-> op, transport_type |-> transport_type, raised |-> FALSE,
          result |-> [is_valid |-> result.is_valid, errors |-> result.errors,
                      warnings |-> result.warnings]]

Validated(xml_content, outcome) ==
    /\ validation.op = "none"
    /\ validation' = outcome
    /\ document' = xml_content
    /\ UNCHANGED <<layout, generation>>

ValidateXmlStructure ==
    \E xml_content \in Documents :
        Validated(xml_content,
            Outcome("validate_xml_structure", "", validate_xml_structure(xml_content)))

ValidateFieldFormats ==
    \E xml_content \in Documents :
        Validated(xml_content,
            Outcome("validate_field_formats", "", validate_field_formats(xml_content)))

ValidateStopReferences ==
    \E xml_content \in Documents :
        Validated(xml_content,
            Outcome("validate_stop_references", "",
                    validate_stop_references(xml_content)))

ValidateTransportTypeRules ==
    \E xml_content \in Documents, transport_type \in DocumentTypes :
        Validated(xml_content,
            Outcome("validate_transport_type_rules", transport_type,
                    validate_transport_type_rules(xml_content, transport_type)))

ValidateCrossFieldConsistency ==
    \E xml_content \in Documents :
        Validated(xml_content,
            Outcome("validate_cross_field_consistency", "",
                    validate_cross_field_consistency(xml_content)))

ValidateOceanCompleteness ==
    \E xml_content \in Documents :
        Validated(xml_content,
            Outcome("validate_ocean_completeness", "",
                    validate_ocean_completeness(xml_content)))

ValidateTransportOrderXml ==
    \E xml_content \in Documents, transport_type \in DocumentTypes :
        Validated(xml_content,
            [op |-> "validate_transport_order_xml", transport_type |-> transport_type,
             raised |-> FALSE,
             result |-> validate_transport_order_xml(xml_content, transport_type)])

\* the longest of the enumerated texts
MaxText == 4

\* the texts remove_empty_placeholders is called with: every text of up to
\* MaxText braces, words and line ends, and some with an element or a tag
\* around a token
PlaceholderTexts ==
    LET RECURSIVE Over(_)
        Over(n) ==
            IF n = 0 THEN {<<>>}
            ELSE Over(n - 1)
                 \cup {Append(t, a) : t \in {u \in Over(n - 1) : Len(u) = n - 1},
                                      a \in {"{", "}", "unused", "\n"}}
    IN
    Over(MaxText)
    \cup {<<"\n", " ", "{", "unused", "}", " ", "\n">>,
          <<"<", "note", ">", "{", "unused", "}", "<", "/", "note", ">">>,
          <<" ", "<", "note", ">", "{", "unused", "}", "<", "/", "note", ">",
            "{", "unused", "}", "\n">>,
          <<"<", "note", " ", "id", "=", "\"", "{", "unused", "}", "\"", "/", ">", "\n">>,
          <<"<", "note", ">", "rolls", "<", "/", "note", ">">>}

\* the cleanup called on a text
RemoveEmptyPlaceholders ==
    /\ generation.op = "none"
    /\ validation.op = "none"
    /\ \E xml_string \in PlaceholderTexts :
           generation' = [op |-> "remove_empty_placeholders", xml_string |-> xml_string,
                          cleaned |-> remove_empty_placeholders(xml_string)]
    /\ UNCHANGED <<layout, document, validation>>

\* the rule engine called on a draft, for a store that declares the two
\* rules in either order, with either priority, the second for either
\* group of types
ApplyBusinessRules ==
    LET Road == {"simple_road", "complex_road"}
        Mapping(priority) ==
            [id |-> "carrier_id_mapping_rule", priority |-> priority,
             applies_to |-> Road,
             field_patterns |-> <<"carrier_id", "carrier">>,
             target_field |-> "carrier_creditor_number",
             field |-> "", operator |-> "", action_field |-> "", value |-> <<>>]
        Status(priority, applies_to) ==
            [id |-> "carrier_creditor_status_rule", priority |-> priority,
             applies_to |-> applies_to,
             field_patterns |-> <<>>, target_field |-> "",
             field |-> "carrier_creditor_number", operator |-> "has_value",
             action_field |-> "status", value |-> <<"NTO">>]
        Stores ==
            UNION {{<<Mapping(m), Status(p, a)>>, <<Status(p, a), Mapping(m)>>} :
                       m \in 1..2, p \in 1..2, a \in {Road, {"ocean_visibility"}}}
        RawInputs ==
            {[number |-> <<"1404338">>],
             [number |-> <<"1404338">>, carrier_id |-> <<"0081310198">>],
             [number |-> <<"1404338">>, carrier |-> <<"0000999999">>],
             [number |-> <<"1404338">>, carrier_id |-> <<"0081310198">>,
              carrier |-> <<"0000999999">>],
             [number |-> <<"1404338">>, carrier_id |-> <<>>,
              carrier |-> <<"0000999999">>]}
        Drafts ==
            {<< <<"number", <<"1404338">> >>, <<"status", <<"N">> >> >>,
             << <<"number", <<"1404338">> >>, <<"status", <<"N">> >>,
                <<"carrier_creditor_number", <<"0000203512">> >> >>,
             << <<"number", <<"1404338">> >>, <<"status", <<"N">> >>,
                <<"carrier_creditor_number", <<>> >> >>}
    IN
    /\ generation.op = "none"
    /\ validation.op = "none"
    /\ \E rules \in Stores, transport_type \in {"simple_road", "ocean_visibility"},
          user_input \in RawInputs, collected_data \in Drafts :
           generation' =
               [op |-> "apply_business_rules", rules |-> rules,
                transport_type |-> transport_type, user_input |-> user_input,
                collected_data |-> collected_data,
                result |-> fold_business_rules(rules, transport_type, user_input,
                                               collected_data)]
    /\ UNCHANGED <<layout, document, validation>>

\* one field checked against its rules.  The rules and values are every
\* combination of a numeric type, a minimum and a maximum length, a pattern
\* and an allowed-value set, with four values
ApplyFieldValidation ==
    LET FieldRuleSamples ==
            [required : {TRUE}, type : {"", "number"}, min_length : {0, 2},
             max_length : {0, 3}, pattern : {"", "^\\S+$"},
             allowed_values : {{}, {"N", "D"}}]
        FieldValueSamples == {<<>>, <<"N">>, <<"1404338">>, <<"AB", " ", "CD">>}
    IN
    \E rules \in FieldRuleSamples, value \in FieldValueSamples :
        /\ generation.op = "none"
        /\ validation.op = "none"
        /\ validation' =
               Outcome("_apply_field_validation", "",
                       _apply_field_validation("number", value, rules, NewResult))
               @@ [rules |-> rules, value |-> value]
        /\ document' = value
        /\ UNCHANGED <<layout, generation>>

Next ==
    \/ GenerateXml
    \/ RemoveEmptyPlaceholders
    \/ ApplyBusinessRules
    \/ ApplyFieldValidation
    \/ ValidateXmlStructure
    \/ ValidateFieldFormats
    \/ ValidateStopReferences
    \/ ValidateTransportTypeRules
    \/ ValidateCrossFieldConsistency
    \/ ValidateOceanCompleteness
    \/ ValidateTransportOrderXml

Spec == Init /\ [][Next]_vars

(***************************************************************************)
(* Properties.  Texts reads a document as a caller does: the texts of the  *)
(* elements of a given name, in document order, whatever their namespace.  *)
(***************************************************************************)
Texts(xml_content, name) ==
    LET Of(d) == [i \in 1..Len(d) |-> d[i].text] IN
    Of(SelectSeq(Descendants(fromstring(xml_content).root.kids),
                 LAMBDA k : k.tag = name))

\* the set of the elements of a sequence
Range(seq) == {seq[i] : i \in 1..Len(seq)}

\* a validator returned a result (no exception left it, and the aggregate
\* did not turn one into its failure record)
HasResult(op) ==
    /\ validation.op = op
    /\ ~validation.raised
    /\ op = "validate_transport_order_xml" => validation.result.success

Reported(messages, msg) == \E i \in 1..Len(messages) : messages[i].msg = msg

\* the instant of a start text, in minutes
Instant(text) == IsoTable[text[1]].local - IsoTable[text[1]].off

\* C1: for each of the three transport types, generate_xml on the type's
\* get_example_input succeeds, and validate_transport_order_xml on the
\* generated text returns is_valid = true with an empty error list.
C1_ExamplesValidate ==
    (/\ generation.op = "generate_xml"
     /\ generation.user_input = get_example_input(generation.transport_type))
    => /\ generation.result.success
       /\ validation.op = "validate_transport_order_xml"
          => /\ validation.result.success
             /\ validation.result.is_valid
             /\ validation.result.errors = <<>>

C3_ReferencesResolve ==
    Generated
    => \A ref \in Range(Texts(generation.result.xml_content, "loading_stop_id"))
                  \cup Range(Texts(generation.result.xml_content, "unloading_stop_id")) :
           ref \in Range(Texts(generation.result.xml_content, "id"))

\* C4: in every generated document, the rendered stop indices are exactly
\* the integers 0..n-1 for its n stops.
C4_IndicesContiguous ==
    Generated
    => LET indices == Texts(generation.result.xml_content, "index") IN
       /\ \A i \in 1..Len(indices) : ParseInt(indices[i])[1]
       /\ {ParseInt(indices[i])[2] : i \in 1..Len(indices)} = 0..(Len(indices) - 1)

\* C5: in every generated document, the stop ids are pairwise distinct.
C5_IdsDistinct ==
    Generated
    => LET ids == Texts(generation.result.xml_content, "id") IN
       \A i, j \in 1..Len(ids) : i # j => ids[i] # ids[j]

\* C6: the text generate_xml returns on success contains no placeholder
\* token: no '{' followed by characters other than '}' and then a '}'.
C6_NoPlaceholderLeft ==
    Generated => ~HasPlaceholder(generation.result.xml_content)

\* C6 witness: a text was generated from an input whose comment holds a
\* token in braces, which no replacement resolves
C6_BracesInComment ==
    /\ Generated
    /\ "comment" \in DOMAIN generation.user_input
    /\ HasPlaceholder(generation.user_input.comment)

\* C7: generate_xml returns a text only with success = true and only when
\* the text is well-formed; a failing result is a validation_error or a
\* generation_error and carries no text; when validate_input fails, no
\* later step of the pipeline has run.
C7_TextOnlyWhenWellFormed ==
    generation.op = "generate_xml"
    => /\ generation.result.success
          <=> "xml_content" \in DOMAIN generation.result
       /\ generation.result.success
          => fromstring(generation.result.xml_content).ok
       /\ ~generation.result.success
          => generation.result.error_type \in {"validation_error", "generation_error"}
       /\ (~generation.result.success
           /\ generation.result.error_type = "validation_error")
          => generation.steps = <<"validate_input">>

\* C7 witness: the assembled text was not well-formed and finalize_xml
\* refused it
C7_MalformedRefused ==
    /\ generation.op = "generate_xml"
    /\ ~generation.result.success
    /\ generation.result.error_type = "generation_error"
    /\ generation.result.error_message = "Generated XML is not well-formed"
    /\ generation.steps[Len(generation.steps)] = "finalize_xml"

\* C8: validate_cross_field_consistency returns is_valid = false for every
\* document whose stop indices are not exactly 0..n-1, with the error
\* 'should start from 0' when the smallest index is not 0 and the error
\* 'should be sequential' when two consecutive sorted indices do not
\* differ by 1; indices 0..n-1 in any document order get neither error.
C8_IndexSequenceReported ==
    (/\ HasResult("validate_cross_field_consistency")
     /\ fromstring(document).ok
     /\ Texts(document, "index") # <<>>
     /\ \A t \in Range(Texts(document, "index")) : ParseInt(t)[1])
    => LET indices == Texts(document, "index")
           sorted == SortSeq([i \in 1..Len(indices) |-> ParseInt(indices[i])[2]], <)
           from_zero == sorted[1] = 0
           sequential == \A i \in 2..Len(sorted) : sorted[i] = sorted[i - 1] + 1
       IN
       /\ ~(from_zero /\ sequential) => ~validation.result.is_valid
       /\ ~from_zero <=> Reported(validation.result.errors,
                                  "Stop indices should start from 0")
       /\ ~sequential <=> Reported(validation.result.errors,
                                   "Stop indices should be sequential")

\* C9: validate_stop_references returns is_valid = false with an error
\* naming the offending id if and only if some loading_stop_id or
\* unloading_stop_id of the document is the id of no stop of the document.
C9_DanglingReported ==
    (HasResult("validate_stop_references") /\ fromstring(document).ok)
    => LET dangling ==
               (Range(Texts(document, "loading_stop_id"))
                \cup Range(Texts(document, "unloading_stop_id")))
               \ Range(Texts(document, "id"))
       IN
       (dangling # {})
       <=> /\ ~validation.result.is_valid
           /\ \E i \in 1..Len(validation.result.errors) :
                  validation.result.errors[i].arg \in dangling

\* C10: on a document whose stops carry valid ISO-8601 starts (with 'Z',
\* a positive or a negative offset, in any mix),
\* validate_cross_field_consistency returns a result, and that result
\* carries the date-sequence warning if and only if, in document order,
\* some stop starts earlier than the stop before it.
C10_DateSequenceWarned ==
    (/\ validation.op = "validate_cross_field_consistency"
     /\ fromstring(document).ok
     /\ \A t \in Range(Texts(document, "start")) : IsIsoDateTime(t))
    => LET starts == Texts(document, "start") IN
       /\ ~validation.raised
       /\ Reported(validation.result.warnings,
                   "Stop dates may not be in logical sequence - verify pickup and delivery order")
          <=> \E i \in 2..Len(starts) : Instant(starts[i]) < Instant(starts[i - 1])

\* the value texts of the parameters of a qualifier, wherever the document
\* holds them
ParameterValues(xml_content, qualifier) ==
    LET Of(params) ==
            {Find(params[i], params[i].ns, "value").text : i \in 1..Len(params)} IN
    Of(SelectSeq(Descendants(fromstring(xml_content).root.kids),
                 LAMBDA k : /\ k.tag = "parameter"
                            /\ Get(k, "qualifier") = <<qualifier>>
                            /\ ~IsNone(Find(k, k.ns, "value"))))

\* C11: whenever the carrier_creditor_number of the transport is not empty
\* and a parameter custom.preassignedCarrierCreditorNumber of the document
\* carries a different value, validate_cross_field_consistency returns the
\* carrier-creditor inconsistency as a warning and not as an error.
C11_CarrierMismatchWarned ==
    (/\ HasResult("validate_cross_field_consistency")
     /\ fromstring(document).ok
     /\ Texts(document, "carrier_creditor_number") # <<>>
     /\ Texts(document, "carrier_creditor_number")[1] # <<>>
     /\ \E value \in ParameterValues(document, "custom.preassignedCarrierCreditorNumber") :
            value # Texts(document, "carrier_creditor_number")[1])
    => /\ Reported(validation.result.warnings,
                   "Carrier creditor number inconsistency between transport and order levels")
       /\ ~Reported(validation.result.errors,
                    "Carrier creditor number inconsistency between transport and order levels")

\* C12: every SCAC check accepts a value if and only if it matches
\* ^[A-Z0-9]{4}$: the input validation of the Ocean Visibility generator
\* rejects any other SCAC with a validation error, and validate_field_formats
\* and validate_ocean_completeness report an invalid SCAC format for exactly
\* the ocean.scac.no parameters whose value does not match.
C12_ScacChecksAgree ==
    LET ScacErrors == {"SCAC code must be exactly 4 characters",
                       "SCAC code must contain only uppercase letters and numbers"}
        Rejected(result) ==
            /\ ~result.success
            /\ result.error_type = "validation_error"
            /\ \E i \in 1..Len(result.errors) : result.errors[i].msg \in ScacErrors
        BadScac(xml_content) ==
            \E value \in ParameterValues(xml_content, "ocean.scac.no") :
                value # <<>> /\ ~IsScac(value)
    IN
    /\ (/\ generation.op = "generate_xml"
        /\ generation.transport_type = "ocean_visibility"
        /\ "ocean.scac.no" \in DOMAIN generation.user_input
        /\ generation.user_input["ocean.scac.no"] # <<>>)
       => (Rejected(generation.result)
           <=> ~IsScac(generation.user_input["ocean.scac.no"]))
    /\ (HasResult("validate_field_formats") /\ fromstring(document).ok)
       => (Reported(validation.result.errors, "Invalid SCAC code format")
           <=> BadScac(document))
    /\ (/\ HasResult("validate_ocean_completeness")
        /\ fromstring(document).ok
        /\ Texts(document, "scheduling_unit") = << <<"Ocean Visibility">> >>)
       => (Reported(validation.result.errors, "Invalid SCAC code format")
           <=> BadScac(document))

\* the required ocean qualifiers that an input omits
OmittedOceanParameters(user_input) ==
    {"ocean.scac.no", "ocean.bl.no", "ocean.container.no"} \ DOMAIN user_input

\* C13: generating an Ocean Visibility document from an input that omits
\* exactly one of ocean.scac.no, ocean.bl.no, ocean.container.no returns
\* success = false with error_type validation_error; of the three
\* qualifiers, the errors name the omitted one and no other, and
\* missing_required names no other.
C13_OmittedOceanParameterNamed ==
    (/\ generation.op = "generate_xml"
     /\ generation.transport_type = "ocean_visibility"
     /\ Cardinality(OmittedOceanParameters(generation.user_input)) = 1)
    => /\ ~generation.result.success
       /\ generation.result.error_type = "validation_error"
       /\ {generation.result.errors[i].arg :
              i \in {j \in 1..Len(generation.result.errors) :
                        generation.result.errors[j].msg
                            = "Required ocean parameter is missing"}}
          = {<<q>> : q \in OmittedOceanParameters(generation.user_input)}
       /\ Range(generation.result.missing_required)
              \cap {"ocean.scac.no", "ocean.bl.no", "ocean.container.no"}
          \subseteq OmittedOceanParameters(generation.user_input)

\* C13 witness: an input without ocean.bl.no alone was refused
C13_BillOfLadingOmitted ==
    /\ generation.op = "generate_xml"
    /\ generation.transport_type = "ocean_visibility"
    /\ OmittedOceanParameters(generation.user_input) = {"ocean.bl.no"}
    /\ "number" \in DOMAIN generation.user_input
    /\ ~generation.result.success

\* the ocean-only qualifiers among the parameters of an input
OceanQualifiers(user_input) ==
    LET parameters == IF "parameters" \in DOMAIN user_input
                      THEN user_input.parameters ELSE <<>> IN
    {parameters[i].qualifier : i \in 1..Len(parameters)}
        \cap {<<"ocean.scac.no">>, <<"ocean.bl.no">>, <<"ocean.container.no">>,
              <<"visibility.ocean.product">>}

AbsentItemParameters(user_input) ==
    LET items == IF "order_items" \in DOMAIN user_input
                 THEN user_input.order_items ELSE <<>>
        Present(item) ==
            IF "parameters" \in DOMAIN item
            THEN {item.parameters[i].qualifier : i \in 1..Len(item.parameters)}
            ELSE {} IN
    {q \in {"material", "plantCode", "unitOfMeasurement"} :
        \E i \in 1..Len(items) : <<q>> \notin Present(items[i])}

\* C15: a Complex Road input whose order item has every required field and
\* lacks only the recommended item parameter plantCode generates
\* successfully, and the result names plantCode, in a warning list or in
\* its metadata, as recommended but absent.
C15_AbsentPlantCodeNamed ==
    LET Names(messages) ==
            \E i \in 1..Len(messages) : "plantCode" \in Range(messages[i].arg)
        Named(result) ==
            \/ "warnings" \in DOMAIN result /\ Names(result.warnings)
            \/ /\ "metadata" \in DOMAIN result
               /\ "warnings" \in DOMAIN result.metadata
               /\ Names(result.metadata.warnings)
    IN
    (/\ generation.op = "generate_xml"
     /\ generation.transport_type = "complex_road"
     /\ AbsentItemParameters(generation.user_input) = {"plantCode"}
     /\ validate_input("complex_road", generation.user_input).is_valid)
    => generation.result.success /\ Named(generation.result)

\* C16: the input validation of Complex Road flags a supplied
\* carrier_creditor_number, and generation fails with that error, exactly
\* when the number is not a text of 10 characters that are all digits.
C16_CarrierCreditorFlagged ==
    LET TenDigits == {<<"0000203512">>, <<"0081310198">>, <<"0000999999">>}
        Flagged(result) ==
            /\ ~result.success
            /\ result.error_type = "validation_error"
            /\ \E i \in 1..Len(result.errors) :
                   result.errors[i].msg = "Carrier creditor number must be 10 digits"
    IN
    (/\ generation.op = "generate_xml"
     /\ generation.transport_type = "complex_road"
     /\ "carrier_creditor_number" \in DOMAIN generation.user_input
     /\ generation.user_input.carrier_creditor_number # <<>>)
    => (Flagged(generation.result)
        <=> generation.user_input.carrier_creditor_number \notin TenDigits)

\* C17: validators accumulate: one call reports every issue it detects.  A
\* document with a wrong root and no transport_order gets both errors from
\* validate_xml_structure; a field value that fails several of its rules
\* (numeric type, minimum and maximum length, pattern, allowed values) gets
\* one error for each; an ocean visibility document without parameters
\* section and with a wrong fixed status, in a transport_order the
\* validator reads, gets both errors from validate_transport_type_rules;
\* and the errors of
\* validate_transport_order_xml are the errors of the stages, every stage
\* run, in stage order.
C17_ValidatorsAccumulate ==
    LET Named(name) ==
            SelectSeq(Descendants(fromstring(document).root.kids),
                      LAMBDA k : k.tag = name)
        Bare(name) == SelectSeq(Named(name), LAMBDA k : k.ns = "")
        Failing(rules, value) ==
            {<<"Field must be a number",
               rules.type = "number" /\ value # <<"1404338">> >>,
             <<"Field is too short",
               rules.min_length # 0 /\ CharLen(value) < rules.min_length>>,
             <<"Field is too long",
               rules.max_length # 0 /\ CharLen(value) > rules.max_length>>,
             <<"Field format is invalid",
               rules.pattern = "^\\S+$" /\ " " \in Range(value)>>,
             <<"Field must be one of the allowed values",
               rules.allowed_values # {} /\ value \notin {<<a>> : a \in rules.allowed_values}>>}
        StageErrors(stage) == IF stage.is_valid THEN <<>> ELSE stage.errors
        Stages(xml_content, transport_type) ==
            StageErrors(validate_xml_structure(xml_content))
            \o StageErrors(validate_field_formats(xml_content))
            \o StageErrors(validate_stop_references(xml_content))
            \o StageErrors(validate_transport_type_rules(xml_content, transport_type))
            \o StageErrors(validate_cross_field_consistency(xml_content))
            \o (IF transport_type = "ocean_visibility"
                THEN StageErrors(validate_ocean_completeness(xml_content))
                ELSE <<>>)
    IN
    /\ (/\ HasResult("validate_xml_structure")
        /\ fromstring(document).ok
        /\ fromstring(document).root.tag # "transport_orders"
        /\ Named("transport_order") = <<>>)
       => /\ Reported(validation.result.errors, "Root element must be 'transport_orders'")
          /\ Reported(validation.result.errors, "No transport_order element found")
    /\ (HasResult("_apply_field_validation") /\ validation.value # <<>>)
       => \A failing \in Failing(validation.rules, validation.value) :
              failing[2] => Reported(validation.result.errors, failing[1])
    /\ (/\ HasResult("validate_transport_type_rules")
        /\ validation.transport_type = "ocean_visibility"
        /\ fromstring(document).ok
        /\ Named("parameters") = <<>>
        /\ Named("transport_order") # <<>>
        /\ Named("transport_order")[1].ns = NAMESPACE
        /\ Bare("status") # <<>>
        /\ Bare("status")[1].text # <<"NTO">>)
       => /\ Reported(validation.result.errors, "Required parameters section is missing")
          /\ \E i \in 1..Len(validation.result.errors) :
                 validation.result.errors[i] =
                     [msg |-> "Ocean visibility: Field must have the fixed value",
                      arg |-> <<"status">>]
    /\ HasResult("validate_transport_order_xml")
       => validation.result.errors = Stages(document, validation.transport_type)

\* C18: no validator operation raises to its caller: whatever the text, each
\* of the structural and business validator operations returns a result, and
\* for a text that is not well-formed the result is invalid and holds a
\* parse error.
C18_NoValidatorRaises ==
    validation.op \in {"validate_xml_structure", "validate_field_formats",
                       "validate_stop_references", "validate_transport_type_rules",
                       "validate_cross_field_consistency",
                       "validate_ocean_completeness"}
    => /\ ~validation.raised
       /\ ~fromstring(document).ok
          => /\ ~validation.result.is_valid
             /\ Reported(validation.result.errors, "XML parsing error")

\* C19: the failure of a generation whose finalized text is not well-formed
\* has an error type that no fault of the user's input has: a generation that
\* fails on an invalid country code, an invalid or missing date-time, a
\* missing location field, a bad SCAC or a missing item field, or that
\* validate_input refuses, returns another error_type.
C19_MalformedOutputDistinct ==
    LET MalformedOutput == GenerationFailure("Generated XML is not well-formed", <<>>).result
        InputFaults ==
            {"Country code must be 2 uppercase letters", "Invalid datetime format",
             "Required date field is missing", "Required location field is missing",
             "SCAC code must be 4 alphanumeric characters",
             "Required item field is missing"}
        InputFault(result) ==
            \/ result.error_type = "validation_error"
            \/ result.error_message \in InputFaults
    IN
    (/\ generation.op = "generate_xml"
     /\ ~generation.result.success
     /\ InputFault(generation.result))
    => generation.result.error_type # MalformedOutput.error_type

\* C20: remove_empty_placeholders is idempotent: the cleanup of a cleaned
\* text is that text, cleanup(cleanup(t)) = cleanup(t) for every text t; a
\* text without placeholder token is returned unchanged; and of a text that
\* is a line with nothing but a token {unused} no token is left.
C20_CleanupIdempotent ==
    LET Marks(t) == SelectSeq(t, LAMBDA a : ~IsWs(a)) IN
    generation.op = "remove_empty_placeholders"
    => /\ remove_empty_placeholders(generation.cleaned) = generation.cleaned
       /\ ~HasPlaceholder(generation.xml_string)
          => generation.cleaned = generation.xml_string
       /\ Marks(generation.xml_string) = <<"{", "unused", "}">>
          => /\ ~HasPlaceholder(generation.cleaned)
             /\ Marks(generation.cleaned) = <<>>

\* C20 witness: the cleanup was called on a line that holds a token {unused}
\* between line ends, and returned another text
C20_StandaloneTokenCleaned ==
    /\ generation.op = "remove_empty_placeholders"
    /\ generation.xml_string = <<"\n", " ", "{", "unused", "}", " ", "\n">>
    /\ generation.cleaned # generation.xml_string

\* where a rule stands in the declared list of the store
RuleAt(rules, id) == CHOOSE i \in 1..Len(rules) : rules[i].id = id

\* a draft holds a non-empty value for a field
Holds(draft, field) == DictHas(draft, field) /\ DictGet(draft, field) # <<>>

\* C21: apply_business_rules applies the rules whose applies_to contains the
\* document type, and no other, in ascending order of priority, a rule
\* declared earlier first among equal priorities, each on the draft the
\* previous one left: when the mapping rule copies the carrier number into a
\* draft that had none, the status rule forces the status if and only if
\* the mapping rule's priority is lower, or equal and declared earlier; a
\* rule that does not apply to the type changes nothing.
C21_RulesInPriorityOrder ==
    LET rules == generation.rules
        m == RuleAt(rules, "carrier_id_mapping_rule")
        st == RuleAt(rules, "carrier_creditor_status_rule")
        Applies(i) == generation.transport_type \in rules[i].applies_to
        Before(i, j) ==
            \/ rules[i].priority < rules[j].priority
            \/ rules[i].priority = rules[j].priority /\ i < j
        Copied ==
            /\ ~Holds(generation.collected_data, "carrier_creditor_number")
            /\ Holds(generation.result, "carrier_creditor_number")
        Forced == DictGet(generation.result, "status") = <<"NTO">>
    IN
    generation.op = "apply_business_rules"
    => /\ Copied => Applies(m)
       /\ Forced => Applies(st)
       /\ (Copied /\ Applies(st)) => (Forced <=> Before(m, st))
       /\ (Holds(generation.collected_data, "carrier_creditor_number") /\ Applies(st))
          => Forced
       /\ (~Applies(m) /\ ~Applies(st)) => generation.result = generation.collected_data

\* C21 witness: the two rules have the same priority, the status rule is
\* declared first, the mapping rule copied the carrier number and the status
\* was not forced
C21_StatusRuleRanFirst ==
    /\ generation.op = "apply_business_rules"
    /\ generation.rules[1].id = "carrier_creditor_status_rule"
    /\ generation.rules[1].priority = generation.rules[2].priority
    /\ generation.transport_type \in generation.rules[1].applies_to
    /\ ~Holds(generation.collected_data, "carrier_creditor_number")
    /\ Holds(generation.result, "carrier_creditor_number")
    /\ DictGet(generation.result, "status") = <<"N">>

\* the engine ran the mapping rule alone: it applies to the type and the
\* status rule does not
MappingRuleAlone ==
    /\ generation.op = "apply_business_rules"
    /\ \A i \in 1..Len(generation.rules) :
           generation.transport_type \in generation.rules[i].applies_to
           <=> generation.rules[i].id = "carrier_id_mapping_rule"

\* C22, as stated: the field-mapping rule is first-set-wins: a draft that
\* has the target field is returned unchanged; otherwise the target gets the
\* value of the first alternative source field, in declared order, that
\* raw_input has, and no other field of the draft changes.
C22_FirstSetWins ==
    LET patterns ==
            generation.rules[RuleAt(generation.rules, "carrier_id_mapping_rule")]
                .field_patterns
        Present == {i \in 1..Len(patterns) : patterns[i] \in DOMAIN generation.user_input}
        Source == patterns[CHOOSE i \in Present : \A j \in Present : i <= j]
    IN
    MappingRuleAlone
    => generation.result =
           IF DictHas(generation.collected_data, "carrier_creditor_number")
              \/ Present = {}
           THEN generation.collected_data
           ELSE DictSet(generation.collected_data, "carrier_creditor_number",
                        generation.user_input[Source])

\* C22, amended: the same with "has" read as "holds a non-empty value": a
\* draft whose target field is non-empty is returned unchanged; otherwise
\* the target gets the value of the first alternative source field, in
\* declared order, that is non-empty in raw_input, and no other field of the
\* draft changes.
C22_FirstNonEmptyWins ==
    LET patterns ==
            generation.rules[RuleAt(generation.rules, "carrier_id_mapping_rule")]
                .field_patterns
        Present == {i \in 1..Len(patterns) :
                        /\ patterns[i] \in DOMAIN generation.user_input
                        /\ generation.user_input[patterns[i]] # <<>>}
        Source == patterns[CHOOSE i \in Present : \A j \in Present : i <= j]
    IN
    MappingRuleAlone
    => generation.result =
           IF Holds(generation.collected_data, "carrier_creditor_number")
              \/ Present = {}
           THEN generation.collected_data
           ELSE DictSet(generation.collected_data, "carrier_creditor_number",
                        generation.user_input[Source])

\* C22 witness: raw_input has both alternative source fields and the draft
\* has no target; the target got the value of the first
C22_FirstSourceCopied ==
    /\ MappingRuleAlone
    /\ {"carrier_id", "carrier"} \subseteq DOMAIN generation.user_input
    /\ generation.user_input.carrier_id # <<>>
    /\ ~DictHas(generation.collected_data, "carrier_creditor_number")
    /\ DictGet(generation.result, "carrier_creditor_number")
           = generation.user_input.carrier_id

\* C23: a required field that raw_input omits takes its configured default,
\* so a generate call whose input omits a required field that has a default
\* is not refused for it: the field is not listed as missing, and when the
\* call succeeds the document holds a value for it.
C23_DefaultTaken ==
    LET required == get_transport_parameters(generation.transport_type).required_fields
        Defaulted == {required[i].name : i \in {j \in 1..Len(required) :
                          /\ required[j].has_default
                          /\ required[j].name \notin DOMAIN generation.user_input}}
    IN
    generation.op = "generate_xml"
    => \A name \in Defaulted :
           /\ "missing_required" \in DOMAIN generation.result
              => name \notin Range(generation.result.missing_required)
           /\ generation.result.success
              => /\ Texts(generation.result.xml_content, name) # <<>>
                 /\ Texts(generation.result.xml_content, name)[1] # <<>>

\* C24: validate_xml_structure finds every mandatory element under the
\* namespaced and under the bare tag name: the document generate_xml writes
\* for an input with all tags in the namespace and the one it writes with
\* bare tags get the same error list, and an element that is present with a
\* text (stop id, stop index, order_details number, location company_name,
\* city and country, period start and end) is not reported as missing or
\* empty.
C24_BothTagFormsFound ==
    LET Other(l) == CHOOSE o \in Layouts : o # l
        Rewritten ==
            generate_xml(generation.transport_type, generation.user_input,
                         Other(layout)).result.xml_content
        Leaves(name) == Texts(document, name)
        Stops == Len(SelectSeq(Descendants(fromstring(document).root.kids),
                               LAMBDA k : k.tag = "stop"))
        Given(name, n) == Len(Leaves(name)) = n /\ <<>> \notin Range(Leaves(name))
        NotReported(msg) == ~Reported(validation.result.errors, msg)
    IN
    (HasResult("validate_xml_structure") /\ fromstring(document).ok)
    => /\ Generated
          => validation.result.errors = validate_xml_structure(Rewritten).errors
       /\ Given("id", Stops) => NotReported("Stop: missing or empty id element")
       /\ Given("index", Stops) => NotReported("Stop: missing index element")
       /\ (Given("company_name", Stops) /\ Given("city", Stops)
           /\ Given("country", Stops))
          => NotReported("Stop: location missing required element")
       /\ Given("start", Stops)
          => NotReported("Stop: date_time_period missing start element")
       /\ Given("end", Stops)
          => NotReported("Stop: date_time_period missing end element")

\* C25: placeholder substitution replaces the tokens of the template only: a
\* token {name} inside a substituted value, such as a scheduling unit
\* '{stops}' or a vehicle '{comment_element}', is not replaced by a later
\* substitution, so the document holds the stops and the comment once, and
\* no element inside the scheduling_unit or the vehicle element.
C25_ValuesNotSubstituted ==
    LET Named(name) ==
            SelectSeq(Descendants(fromstring(generation.result.xml_content).root.kids),
                      LAMBDA k : k.tag = name)
        Leaf(name) == \A i \in 1..Len(Named(name)) : Named(name)[i].kids = <<>>
    IN
    (/\ Generated
     /\ generation.transport_type = "simple_road"
     /\ \/ HasPlaceholder(generation.user_input.scheduling_unit)
        \/ /\ "vehicle" \in DOMAIN generation.user_input
           /\ HasPlaceholder(generation.user_input.vehicle))
    => /\ Len(Named("stop")) = Len(generation.user_input.stops)
       /\ Len(Named("comment")) <= 1
       /\ Leaf("scheduling_unit")
       /\ Leaf("vehicle")

\* C26: every validation stage finds the elements validate_xml_structure
\* finds: for a document validate_xml_structure accepts, none of
\* validate_field_formats, validate_stop_references,
\* validate_transport_type_rules, validate_cross_field_consistency and
\* validate_ocean_completeness reports 'No transport_order element found',
\* and validate_stop_references does not skip the check of the orders and
\* stops sections: a loading stop id that is the id of no stop is an error.
C26_SameLookupInEveryStage ==
    LET Stages == {"validate_field_formats", "validate_stop_references",
                   "validate_transport_type_rules",
                   "validate_cross_field_consistency",
                   "validate_ocean_completeness"}
    IN
    (/\ validation.op \in Stages
     /\ ~validation.raised
     /\ validate_xml_structure(document).is_valid)
    => /\ ~Reported(validation.result.errors, "No transport_order element found")
       /\ (/\ validation.op = "validate_stop_references"
           /\ ~(Range(Texts(document, "loading_stop_id"))
                    \subseteq Range(Texts(document, "id"))))
          => ~validation.result.is_valid

\* the required fields of the generation's type that its input holds only
\* under a name a field-mapping rule of the type copies from
AliasedRequiredFields ==
    LET required == get_transport_parameters(generation.transport_type).required_fields
        Aliased(name) ==
            \E i \in 1..Len(business_rules) :
                /\ generation.transport_type \in business_rules[i].applies_to
                /\ business_rules[i].target_field = name
                /\ \E j \in 1..Len(business_rules[i].field_patterns) :
                       business_rules[i].field_patterns[j] \in DOMAIN generation.user_input
    IN
    {required[i].name : i \in {j \in 1..Len(required) :
         /\ required[j].name \notin DOMAIN generation.user_input
         /\ Aliased(required[j].name)}}

\* C27: generate_xml checks the required fields before the rule engine runs,
\* so a field-mapping rule never supplies a required field: when the input
\* holds a required field only under an alias that a mapping rule would
\* copy, generate_xml returns a validation_error that lists the field as
\* missing, and no step after validate_input has run.
C27_AliasDoesNotSatisfyRequired ==
    generation.op = "generate_xml"
    => \A name \in AliasedRequiredFields :
           /\ ~generation.result.success
           /\ generation.result.error_type = "validation_error"
           /\ name \in Range(generation.result.missing_required)
           /\ generation.steps = <<"validate_input">>

\* C27 witness: complex road was called with carrier_id and without
\* carrier_creditor_number
C27_CarrierGivenAsAlias ==
    /\ generation.op = "generate_xml"
    /\ generation.transport_type = "complex_road"
    /\ "carrier_id" \in DOMAIN generation.user_input
    /\ "carrier_creditor_number" \in AliasedRequiredFields

\* C28: in complex road generation every collected custom parameter is
\* rendered in one of the two parameter sections: metadata.parameter_count
\* is the number of parameter elements of the document (the order items
\* holding none), and every parameter of the input with a non-empty
\* qualifier is in the document.
C28_EveryParameterRendered ==
    LET parameters == generation.user_input.parameters
        Rendered ==
            SelectSeq(Descendants(fromstring(generation.result.xml_content).root.kids),
                      LAMBDA k : k.tag = "parameter")
    IN
    (/\ Generated
     /\ generation.transport_type = "complex_road"
     /\ "parameters" \in DOMAIN generation.user_input
     /\ \A i \in 1..Len(generation.user_input.order_items) :
            "parameters" \notin DOMAIN generation.user_input.order_items[i])
    => /\ generation.result.metadata.parameter_count = Len(Rendered)
       /\ \A i \in 1..Len(parameters) :
              parameters[i].qualifier # <<>>
              => \E j \in 1..Len(Rendered) :
                     Get(Rendered[j], "qualifier") = parameters[i].qualifier

\* C29: finalization removes the unresolved tokens of the template and no
\* part of a substituted value: the comment of a simple road input, a
\* fragment in braces such as '{L}' included, is the text of the comment
\* element of the generated document.
C29_ValuesKeptVerbatim ==
    LET Decoded(text) ==
            StrReplace(StrReplace(StrReplace(text, <<"&", "lt;">>, <<"<">>),
                                  <<"&", "gt;">>, <<">">>),
                       <<"&", "amp;">>, <<"&">>)
        comments == Texts(generation.result.xml_content, "comment")
    IN
    (/\ Generated
     /\ generation.transport_type = "simple_road"
     /\ "comment" \in DOMAIN generation.user_input)
    => \E i \in 1..Len(comments) : Decoded(comments[i]) = generation.user_input.comment

(***************************************************************************)
(* C30: generate_xml of every variant returns a result record for every    *)
(* input and never raises: a failure of input validation, a wrongly typed  *)
(* value such as a price_reference that is no number or an entry of        *)
(* parameters that is no record included, is returned as a result with     *)
(* success false.  validate_input catches ValueError alone and is called   *)
(* before the try of generate_xml, so the TypeError of the comparison and  *)
(* the AttributeError of param.get leave generate_xml.                     *)
(***************************************************************************)
C30_EveryCallReturns == generation.op # "generate_xml_raised"

====
